---- MODULE Spec2Model ----
(***************************************************************************)
(* Persistent memory + retrieval engine of qjson_agents:                   *)
(*   retrieval.py  - the SQLite memory table, the hashed embedding, the    *)
(*                   IVF index kept in the fractal store, search           *)
(*   fmm_store.py  - PersistentFractalMemory, the per-agent tree file      *)
(*                                                                         *)
(* Floats are fixed-point integers with Scale units per 1.0.  A text is a  *)
(* sequence of one-character strings.  SHA-1 is taken as collision free.   *)
(***************************************************************************)
EXTENDS Integers, Sequences, FiniteSets, TLC

VARIABLES
    memories,   \* the rows of table `memories`, committed; row id = position
    now,        \* time.time(), in whole seconds
    fmm,        \* _FMM_CACHE: agent_id -> the live PersistentFractalMemory
    disk,       \* agent_id -> contents of <agent_dir>/fmm.json
    exited,     \* the atexit hook has run and the process is gone
    calls,      \* history: <<agent, normalized text>> -> completed add calls
    last,       \* history: the operation that returned last
    pc,         \* per thread: position in add_memory / insert / persist
    loc,        \* per thread: the locals of the call in progress
    dbLock,     \* the connection holding SQLite's write lock, or NoThread
    jsonl,      \* agent_id -> the lines of <agent_dir>/memory.jsonl
    ollamaReady \* _OLLAMA_READY: "none" until the probe has run, then "true" / "false"

vars == <<memories, now, fmm, disk, exited, calls, last, pc, loc, dbLock, jsonl, ollamaReady>>

(***************************************************************************)
(* Bounds and configuration                                                *)
(***************************************************************************)
Scale == 100        \* fixed-point units per 1.0
MaxFreq == 2        \* add calls per (agent, fingerprint)
MaxBatch == 2       \* items per add_batch call
MaxTime == 2        \* clock ticks
MaxInserts == 2     \* payloads inserted into one store
MaxCalls == 5       \* add calls, batch items included, in the table specification
MaxStoreAdds == 2   \* add calls in the store specification
MaxAdds == 3        \* add calls in the index specifications
ExpUnit == 10000    \* fixed-point units per 1.0 in exp()
MaxLines == 2       \* lines ingestion may append to one memory.jsonl
MaxKeyNumber == 4   \* largest number read back from a "dim{d}", "K{k}" or bucket key

DIM == 3            \* QJSON_EMBED_DIM, set to 3 (768 when unset)
NPROBE == 4         \* QJSON_RETR_IVF_NPROBE, unset
TOP_K_DEFAULT == 8
BatchSize == 2      \* QJSON_FMM_BATCH_SIZE, set to 2 (10 when unset)
ReindexThreshold == 2   \* QJSON_RETR_REINDEX_THRESHOLD (default 512)
IvfK == 2           \* QJSON_RETR_IVF_K (default 64)
FlushSec == 2       \* QJSON_FMM_FLUSH_SEC, unset: 2.0 seconds

Threads == {"t1", "t2"}
NoThread == "none"
NoFile == [exists |-> FALSE, text |-> <<>>]
NoIndex == [ts |-> 0, dim |-> 0, K |-> 0, count |-> 0, centroids |-> <<>>, buckets |-> <<>>]

(***************************************************************************)
(* Texts                                                                   *)
(***************************************************************************)
TextX == <<"x">>
TextXpad == <<" ", "X", " ">>
TextZ == <<"z">>
TextXY == <<"x", " ", " ", "Y">>
TextXy2 == <<"X", " ", "y">>
TextYX == <<"y", " ", "x">>
Texts == {TextX, TextXpad, TextZ, TextXY, TextXy2, TextYX}

\* the tuple <<f[1], ..., f[n]>>, each component computed once
RECURSIVE Tup(_, _)
Tup(f, n) == IF n = 0 THEN <<>> ELSE Append(Tup(f, n - 1), f[n])

\* f[1] + ... + f[n]
RECURSIVE SumTo(_, _)
SumTo(f, n) == IF n = 0 THEN 0 ELSE f[n] + SumTo(f, n - 1)

IsSpace(c) == c = " "

\* str.lower() on one character
LowerChar(c) ==
    CASE c = "X" -> "x"
      [] c = "Y" -> "y"
      [] c = "Z" -> "z"
      [] OTHER -> c

Lower(t) == Tup([i \in 1..Len(t) |-> LowerChar(t[i])], Len(t))

\* str.split(): the maximal runs of non-whitespace characters, in order
RECURSIVE SplitFrom(_, _, _)
SplitFrom(t, i, cur) ==
    IF i > Len(t)
    THEN IF cur = <<>> THEN <<>> ELSE <<cur>>
    ELSE IF IsSpace(t[i])
         THEN (IF cur = <<>> THEN <<>> ELSE <<cur>>) \o SplitFrom(t, i + 1, <<>>)
         ELSE SplitFrom(t, i + 1, Append(cur, t[i]))

Split(t) == SplitFrom(t, 1, <<>>)

\* " ".join(words)
RECURSIVE JoinSpace(_)
JoinSpace(ws) ==
    IF ws = <<>> THEN <<>>
    ELSE IF Len(ws) = 1 THEN ws[1]
    ELSE ws[1] \o <<" ">> \o JoinSpace(Tail(ws))

\* str.strip()
RECURSIVE StripLeft(_)
StripLeft(t) == IF t # <<>> /\ IsSpace(t[1]) THEN StripLeft(Tail(t)) ELSE t

RECURSIVE StripRight(_)
StripRight(t) ==
    IF t # <<>> /\ IsSpace(t[Len(t)]) THEN StripRight(SubSeq(t, 1, Len(t) - 1)) ELSE t

Strip(t) == StripRight(StripLeft(t))

\* a slip the normalization could make: the case is kept
NormalizeTextNoLower(t) == JoinSpace(Split(Strip(t)))
\* _normalize_text
NormalizeText(t) == JoinSpace(Split(Lower(Strip(t))))

\* _fingerprint: sha1 of the normalized text
Fingerprint(t) == <<"sha1", NormalizeText(t)>>

(***************************************************************************)
(* Vectors                                                                 *)
(***************************************************************************)
Min2(a, b) == IF a < b THEN a ELSE b
Max2(a, b) == IF a > b THEN a ELSE b

SumSq(v) == SumTo([i \in 1..Len(v) |-> v[i] * v[i]], Len(v))

\* the largest r in lo..hi with r * r * s <= x * x * Scale * Scale
RECURSIVE RootBetween(_, _, _, _)
RootBetween(lo, hi, x, s) ==
    IF lo >= hi THEN lo
    ELSE LET mid == (lo + hi + 1) \div 2
         IN  IF mid * mid * s <= x * x * Scale * Scale
             THEN RootBetween(mid, hi, x, s)
             ELSE RootBetween(lo, mid - 1, x, s)

\* |x| / sqrt(s) in Scale units, rounded down (s > 0, x * x <= s)
UnitPart(x, s) == RootBetween(0, Scale, x, s)

\* _norm_list: v / (|v| + 1e-12); the zero vector stays zero
NormList(v) ==
    LET s == SumSq(v)
    IN  Tup([i \in 1..Len(v) |->
                IF s = 0 THEN 0
                ELSE IF v[i] < 0 THEN -UnitPart(v[i], s) ELSE UnitPart(v[i], s)], Len(v))

\* _align_dim: truncate or zero-pad to dim, then renormalize
AlignDim(v, dim) ==
    NormList(Tup([i \in 1..dim |-> IF i <= Len(v) THEN v[i] ELSE 0], dim))

\* _dot and _l2 pair the components by zip, up to the shorter length
Dot(a, b) == SumTo([i \in 1..Min2(Len(a), Len(b)) |-> a[i] * b[i]], Min2(Len(a), Len(b)))
L2(a, b) ==
    SumTo([i \in 1..Min2(Len(a), Len(b)) |-> (a[i] - b[i]) * (a[i] - b[i])],
          Min2(Len(a), Len(b)))

\* array('f') keeps 24 significant bits: the fixed-point value loses its last unit bit
VecToBytes(v) ==
    Tup([i \in 1..Len(v) |->
            IF v[i] < 0 THEN -(((-v[i]) \div 2) * 2) ELSE (v[i] \div 2) * 2], Len(v))
\* float32 -> float is exact
BytesToVec(b) == b

\* _embed_hash: the four (bucket, sign) pairs sha256 gives a token, for width dim
\* (0-based bucket as in the code)
TokenHash(w, dim) ==
    CASE w = <<"x">> /\ dim = 3 -> << <<2, -1>>, <<2, -1>>, <<0, -1>>, <<0, -1>> >>
      [] w = <<"y">> /\ dim = 3 -> << <<2, -1>>, <<2, 1>>, <<2, 1>>, <<0, -1>> >>
      [] w = <<"z">> /\ dim = 3 -> << <<2, 1>>, <<0, 1>>, <<0, 1>>, <<1, 1>> >>
      [] w = <<"x">> /\ dim = 2 -> << <<1, -1>>, <<0, -1>>, <<0, -1>>, <<0, -1>> >>
      [] w = <<"y">> /\ dim = 2 -> << <<0, -1>>, <<0, 1>>, <<1, 1>>, <<1, -1>> >>
      [] w = <<"z">> /\ dim = 2 -> << <<0, 1>>, <<1, 1>>, <<1, 1>>, <<1, 1>> >>

\* the contribution of token list ws to bucket idx (0-based)
RECURSIVE BucketSum(_, _, _)
BucketSum(ws, idx, dim) ==
    IF ws = <<>> THEN 0
    ELSE LET h == TokenHash(ws[1], dim)
         IN  SumTo([k \in 1..4 |-> IF h[k][1] = idx THEN h[k][2] ELSE 0], 4)
             + BucketSum(Tail(ws), idx, dim)

\* embed([text])[0] on the hashed backend
Embed(t, dim) ==
    LET ws == Split(Lower(t))
    IN  NormList(Tup([i \in 1..dim |-> BucketSum(ws, i - 1, dim)], dim))

(***************************************************************************)
(* Python helpers                                                          *)
(***************************************************************************)
\* max(range(len(C)), key=lambda j: _dot(v, C[j])): the first index (0-based)
\* of maximal dot product
ArgMaxDot(v, C) ==
    LET dots == Tup([j \in 1..Len(C) |-> Dot(v, C[j])], Len(C))
    IN  CHOOSE j \in 0..(Len(C) - 1) :
            /\ \A k \in 0..(Len(C) - 1) : dots[k + 1] <= dots[j + 1]
            /\ \A k \in 0..(j - 1) : dots[k + 1] < dots[j + 1]

\* insert x into a sequence sorted by descending key, after its equals
\* a slip the ranking could make: of two equal keys the later one goes first
RECURSIVE InsertDescEarly(_, _, _)
InsertDescEarly(s, x, key) ==
    IF s = <<>> THEN <<x>>
    ELSE IF key[x] >= key[s[1]] THEN <<x>> \o s
    ELSE <<s[1]>> \o InsertDescEarly(Tail(s), x, key)
RECURSIVE InsertDesc(_, _, _)
InsertDesc(s, x, key) ==
    IF s = <<>> THEN <<x>>
    ELSE IF key[x] > key[s[1]] THEN <<x>> \o s
    ELSE <<s[1]>> \o InsertDesc(Tail(s), x, key)

\* sorted(xs, key=..., reverse=True): stable, equal keys keep their order
RECURSIVE SortedDesc(_, _)
SortedDesc(xs, key) ==
    IF xs = <<>> THEN <<>>
    ELSE InsertDesc(SortedDesc(SubSeq(xs, 1, Len(xs) - 1), key), xs[Len(xs)], key)

\* s[:n]
Take(s, n) == SubSeq(s, 1, Min2(n, Len(s)))

RECURSIVE Concat(_)
Concat(ss) == IF ss = <<>> THEN <<>> ELSE ss[1] \o Concat(Tail(ss))

Range(s) == {s[i] : i \in 1..Len(s)}

(***************************************************************************)
(* fmm_store.py: PersistentFractalMemory                                   *)
(***************************************************************************)
\* self.tree = {}: no node with data, no index
EmptyTree == [data |-> <<>>, ivf |-> <<>>]

\* ---- json: the file is the sequence of tokens of the document ----
\* (whitespace, commas and colons carry nothing: a key token is a member name
\* with its colon)
Tok(t, s, n) == [t |-> t, s |-> s, n |-> n]
ObjOpen == Tok("{", "", 0)
ObjClose == Tok("}", "", 0)
ArrOpen == Tok("[", "", 0)
ArrClose == Tok("]", "", 0)
Key(s) == Tok("key", s, 0)
Num(n) == Tok("num", "", n)

\* the keys of a dict in one fixed order
RECURSIVE SetToSeq(_)
SetToSeq(S) ==
    IF S = {} THEN <<>>
    ELSE LET x == CHOOSE y \in S : TRUE IN <<x>> \o SetToSeq(S \ {x})

\* a payload is a flat dict: its members in order, each a number or a string
PayloadTokens(p) ==
    <<ObjOpen>>
      \o Concat(Tup([i \in 1..Len(p) |-> <<Key(p[i].k), Tok(p[i].t, p[i].s, p[i].n)>>],
                    Len(p)))
      \o <<ObjClose>>

\* a slip the encoding could make: a list written last element first
DataTokensReversed(ps) ==
    <<ArrOpen>>
      \o Concat(Tup([i \in 1..Len(ps) |-> PayloadTokens(ps[Len(ps) + 1 - i])], Len(ps)))
      \o <<ArrClose>>
\* a "__data__" list: its payloads in list order
DataTokens(ps) ==
    <<ArrOpen>>
      \o Concat(Tup([i \in 1..Len(ps) |-> PayloadTokens(ps[i])], Len(ps)))
      \o <<ArrClose>>

\* the names of the child nodes below the node at path p
Children(data, p) ==
    {q[Len(p) + 1] : q \in {r \in DOMAIN data :
                               Len(r) > Len(p) /\ SubSeq(r, 1, Len(p)) = p}}

\* the node at path p: its "__data__" list, its child nodes, then extra members
RECURSIVE NodeTokens(_, _, _)
RECURSIVE ChildTokens(_, _, _)
NodeTokens(data, p, extra) ==
    <<ObjOpen>>
      \o (IF p \in DOMAIN data THEN <<Key("__data__")>> \o DataTokens(data[p]) ELSE <<>>)
      \o ChildTokens(data, p, SetToSeq(Children(data, p)))
      \o extra
      \o <<ObjClose>>
ChildTokens(data, p, cs) ==
    IF cs = <<>> THEN <<>>
    ELSE <<Key(cs[1])>> \o NodeTokens(data, Append(p, cs[1]), <<>>)
           \o ChildTokens(data, p, Tail(cs))

\* a list of numbers
NumList(v) == <<ArrOpen>> \o Tup([i \in 1..Len(v) |-> Num(v[i])], Len(v)) \o <<ArrClose>>

\* the members "dim", "centroids", "buckets" an index dict found in fmm.json
\* does not have (a dict _ivf_write stored has them all and carries no such set)
Missing(obj) == IF "missing" \in DOMAIN obj THEN obj.missing ELSE {}

\* the index dict obj with the members miss absent
WithMissing(obj, miss) ==
    IF miss = {}
    THEN [ts |-> obj.ts, dim |-> obj.dim, K |-> obj.K, count |-> obj.count,
          centroids |-> obj.centroids, buckets |-> obj.buckets]
    ELSE [ts |-> obj.ts, dim |-> obj.dim, K |-> obj.K, count |-> obj.count,
          centroids |-> obj.centroids, buckets |-> obj.buckets, missing |-> miss]

\* the dict _ivf_write stores under K{K}; bucket keys are str(k)
IndexTokens(obj) ==
    LET js == SetToSeq(DOMAIN obj.buckets)
    IN  <<ObjOpen, Key("ts"), Num(obj.ts)>>
          \o (IF "dim" \in Missing(obj) THEN <<>> ELSE <<Key("dim"), Num(obj.dim)>>)
          \o <<Key("K"), Num(obj.K), Key("count"), Num(obj.count)>>
          \o (IF "centroids" \in Missing(obj) THEN <<>>
              ELSE <<Key("centroids"), ArrOpen>>
                     \o Concat(Tup([c \in 1..Len(obj.centroids) |->
                                       NumList(obj.centroids[c])], Len(obj.centroids)))
                     \o <<ArrClose>>)
          \o (IF "buckets" \in Missing(obj) THEN <<>>
              ELSE <<Key("buckets"), ObjOpen>>
                     \o Concat(Tup([i \in 1..Len(js) |->
                                    <<Key(ToString(js[i]))>> \o NumList(obj.buckets[js[i]])],
                                   Len(js)))
                     \o <<ObjClose>>)
          \o <<ObjClose>>

\* _ivf_meta_path: the members "retrieval" / "ivf" / "dim{dim}" / "K{k}"
IvfTokens(ivf) ==
    IF ivf = <<>> THEN <<>>
    ELSE <<Key("retrieval"), ObjOpen, Key("ivf"), ObjOpen>>
           \o Concat(Tup([g \in 1..Len(ivf) |->
                 <<Key("dim" \o ToString(ivf[g].dim)), ObjOpen>>
                   \o Concat(Tup([i \in 1..Len(ivf[g].ks) |->
                         <<Key("K" \o ToString(ivf[g].ks[i].K))>>
                           \o IndexTokens(ivf[g].ks[i].obj)], Len(ivf[g].ks)))
                   \o <<ObjClose>>], Len(ivf)))
           \o <<ObjClose, ObjClose>>

\* json.dumps(tree): the document as text
JsonDumps(tree) == NodeTokens(tree.data, <<>>, IvfTokens(tree.ivf))

\* Path.write_text(text) once it has returned
WrittenFile(text) == [exists |-> TRUE, text |-> text]

\* the file once open(path, "w") has truncated it and nothing is written yet
TruncatedFile == [exists |-> TRUE, text |-> <<>>]

\* json values: a dict (keys and values in order), a list, a number, a string
JVal(t, s, n, keys, vals) == [t |-> t, s |-> s, n |-> n, keys |-> keys, vals |-> vals]
JNone == JVal("none", "", 0, <<>>, <<>>)

\* the parser: a stack of open containers and the finished document
ParseStart == [stack |-> <<>>, done |-> <<>>, ok |-> TRUE]
ParseFail == [stack |-> <<>>, done |-> <<>>, ok |-> FALSE]
Frame(t) == [t |-> t, keys |-> <<>>, vals |-> <<>>, key |-> "", hasKey |-> FALSE]

\* a finished value goes into the innermost open container, or is the document
ParseAdd(st, v) ==
    IF st.stack = <<>>
    THEN IF st.done = <<>> THEN [st EXCEPT !.done = <<v>>] ELSE ParseFail
    ELSE LET d == Len(st.stack)
             top == st.stack[d]
         IN  IF top.t = "["
             THEN [st EXCEPT !.stack[d].vals = Append(@, v)]
             ELSE IF ~top.hasKey THEN ParseFail
                  ELSE [st EXCEPT !.stack[d] =
                           [top EXCEPT !.keys = Append(@, top.key),
                                       !.vals = Append(@, v),
                                       !.hasKey = FALSE]]

\* one token
ParseStep(st, tok) ==
    IF ~st.ok THEN st
    ELSE IF tok.t \in {"{", "["}
         THEN IF st.done # <<>> THEN ParseFail
              ELSE [st EXCEPT !.stack = Append(@, Frame(tok.t))]
    ELSE IF tok.t = "key"
         THEN IF st.stack = <<>> THEN ParseFail
              ELSE LET d == Len(st.stack)
                   IN  IF st.stack[d].t # "{" \/ st.stack[d].hasKey THEN ParseFail
                       ELSE [st EXCEPT !.stack[d].key = tok.s, !.stack[d].hasKey = TRUE]
    ELSE IF tok.t \in {"}", "]"}
         THEN IF st.stack = <<>> THEN ParseFail
              ELSE LET d == Len(st.stack)
                       top == st.stack[d]
                   IN  IF top.hasKey \/ (tok.t = "}") # (top.t = "{") THEN ParseFail
                       ELSE ParseAdd([st EXCEPT !.stack = SubSeq(@, 1, d - 1)],
                                     JVal(top.t, "", 0, top.keys, top.vals))
    ELSE ParseAdd(st, JVal(tok.t, tok.s, tok.n, <<>>, <<>>))

RECURSIVE ParseFrom(_, _, _)
ParseFrom(text, i, st) ==
    IF i > Len(text) \/ ~st.ok THEN st
    ELSE ParseFrom(text, i + 1, ParseStep(st, text[i]))

\* json.loads(text): the value, or JNone where json.loads raises
JsonLoads(text) ==
    LET st == ParseFrom(text, 1, ParseStart)
    IN  IF st.ok /\ st.stack = <<>> /\ Len(st.done) = 1 THEN st.done[1] ELSE JNone

\* d.get(k): the value of the last member named k
Field(v, k) ==
    LET hits == {i \in 1..Len(v.keys) : v.keys[i] = k}
    IN  IF v.t # "{" \/ hits = {} THEN JNone
        ELSE v.vals[CHOOSE i \in hits : \A j \in hits : j <= i]

\* int(key.replace(prefix, "")); -1 where int() raises
KeyNumber(prefix, s) ==
    LET hits == {n \in 0..MaxKeyNumber : prefix \o ToString(n) = s}
    IN  IF hits = {} THEN 0 - 1 ELSE CHOOSE n \in hits : TRUE

\* the payloads of a "__data__" list
PayloadOf(v) ==
    Tup([i \in 1..Len(v.keys) |->
            [k |-> v.keys[i], t |-> v.vals[i].t, s |-> v.vals[i].s, n |-> v.vals[i].n]],
        Len(v.keys))
PayloadsOf(v) == Tup([i \in 1..Len(v.vals) |-> PayloadOf(v.vals[i])], Len(v.vals))

\* the data lists below a dict, by path ("retrieval" at the root is the index)
RECURSIVE DataFrom(_, _, _)
DataFrom(v, p, i) ==
    IF i > Len(v.keys) THEN <<>>
    ELSE LET k == v.keys[i]
             x == v.vals[i]
             rest == DataFrom(v, p, i + 1)
         IN  IF k = "__data__"
             THEN IF x.t = "[" THEN (p :> PayloadsOf(x)) @@ rest ELSE rest
             ELSE IF (p = <<>> /\ k = "retrieval") \/ x.t # "{" THEN rest
             ELSE DataFrom(x, Append(p, k), 1) @@ rest

NumsOf(v) == Tup([i \in 1..Len(v.vals) |-> v.vals[i].n], Len(v.vals))

RECURSIVE BucketsFrom(_, _)
BucketsFrom(v, i) ==
    IF i > Len(v.keys) THEN <<>>
    ELSE (KeyNumber("", v.keys[i]) :> NumsOf(v.vals[i])) @@ BucketsFrom(v, i + 1)

\* the dict stored under K{K}
IndexOf(o) ==
    WithMissing(
        [ts |-> Field(o, "ts").n, dim |-> Field(o, "dim").n, K |-> Field(o, "K").n,
         count |-> Field(o, "count").n,
         centroids |-> LET c == Field(o, "centroids")
                       IN  Tup([i \in 1..Len(c.vals) |-> NumsOf(c.vals[i])], Len(c.vals)),
         buckets |-> BucketsFrom(Field(o, "buckets"), 1)],
        (IF Field(o, "dim").t = "num" THEN {} ELSE {"dim"})
          \cup (IF Field(o, "centroids").t = "[" THEN {} ELSE {"centroids"})
          \cup (IF Field(o, "buckets").t = "{" THEN {} ELSE {"buckets"}))

\* the indexes under tree["retrieval"]["ivf"], by dim key and K key
IvfOf(root) ==
    LET node == Field(Field(root, "retrieval"), "ivf")
    IN  Tup([g \in 1..Len(node.keys) |->
                [dim |-> KeyNumber("dim", node.keys[g]),
                 ks |-> LET sub == node.vals[g]
                        IN  Tup([i \in 1..Len(sub.keys) |->
                                    [K |-> KeyNumber("K", sub.keys[i]),
                                     obj |-> IndexOf(sub.vals[i])]], Len(sub.keys))]],
            Len(node.keys))

\* the tree a parsed document stands for
TreeOf(v) == [data |-> DataFrom(v, <<>>, 1), ivf |-> IvfOf(v)]

\* __init__ lines 53-57: json.loads of the file; no file or unparsable text
\* leaves the tree empty
LoadTree(file) ==
    IF ~file.exists THEN EmptyTree
    ELSE LET v == JsonLoads(file.text)
         IN  IF v.t = "{" THEN TreeOf(v) ELSE EmptyTree

\* __init__: the fields of a fresh instance
NewInst(file, t) ==
    [tree |-> LoadTree(file), dirty |-> FALSE, since |-> t, inserts |-> 0]

\* a slip the constructor could make: no cache, every construction loads anew
ConstructReload(S, a, t) ==
    [S EXCEPT !.fmm = [x \in (DOMAIN S.fmm) \cup {a} |->
                          IF x = a THEN NewInst(S.disk[a], t) ELSE S.fmm[x]]]
\* PersistentFractalMemory(agent_id): __new__ returns the cached instance, and
\* __init__ runs only for a new one.  S is [fmm, disk].
Construct(S, a, t) ==
    IF a \in DOMAIN S.fmm THEN S
    ELSE [S EXCEPT !.fmm = S.fmm @@ (a :> NewInst(S.disk[a], t))]

\* a slip persist() could make: the write is not conditional
PersistAlways(S, a) ==
    [fmm |-> [S.fmm EXCEPT ![a].dirty = FALSE],
     disk |-> [S.disk EXCEPT ![a] = WrittenFile(JsonDumps(S.fmm[a].tree))]]
\* persist(): write the whole tree only if dirty
PersistStore(S, a) ==
    IF ~S.fmm[a].dirty THEN S
    ELSE [fmm |-> [S.fmm EXCEPT ![a].dirty = FALSE],
          disk |-> [S.disk EXCEPT ![a] = WrittenFile(JsonDumps(S.fmm[a].tree))]]

\* a slip insert() could make: the leaf's list is replaced by the new payload
TreeInsertReplace(tree, path, payload) ==
    [tree EXCEPT !.data = (path :> <<payload>>) @@ @]
\* node.setdefault("__data__", []).append(data) at the end of topic_path
TreeInsert(tree, path, payload) ==
    IF path \in DOMAIN tree.data
    THEN [tree EXCEPT !.data[path] = Append(@, payload)]
    ELSE [tree EXCEPT !.data = @ @@ (path :> <<payload>>)]

\* a slip insert() could make: the flush is decided on the age alone
InsertStoreByAge(S, a, path, payload, t) ==
    LET inst == S.fmm[a]
        i1 == [inst EXCEPT !.tree = TreeInsert(inst.tree, path, payload),
                           !.dirty = TRUE,
                           !.inserts = inst.inserts + 1]
        S1 == [S EXCEPT !.fmm[a] = i1]
    IN  IF (t - i1.since) >= FlushSec
        THEN LET S2 == PersistStore(S1, a)
             IN  [S2 EXCEPT !.fmm[a].since = t, !.fmm[a].inserts = 0]
        ELSE S1
\* a slip insert() could make: the flush comes one insert late
InsertStoreLate(S, a, path, payload, t) ==
    LET inst == S.fmm[a]
        i1 == [inst EXCEPT !.tree = TreeInsert(inst.tree, path, payload),
                           !.dirty = TRUE,
                           !.inserts = inst.inserts + 1]
        S1 == [S EXCEPT !.fmm[a] = i1]
    IN  IF i1.inserts > BatchSize \/ (t - i1.since) >= FlushSec
        THEN LET S2 == PersistStore(S1, a)
             IN  [S2 EXCEPT !.fmm[a].since = t, !.fmm[a].inserts = 0]
        ELSE S1
\* insert(): append, mark dirty, count, and flush on size or age
InsertStore(S, a, path, payload, t) ==
    LET inst == S.fmm[a]
        i1 == [inst EXCEPT !.tree = TreeInsert(inst.tree, path, payload),
                           !.dirty = TRUE,
                           !.inserts = inst.inserts + 1]
        S1 == [S EXCEPT !.fmm[a] = i1]
    IN  IF i1.inserts >= BatchSize \/ (t - i1.since) >= FlushSec
        THEN LET S2 == PersistStore(S1, a)
             IN  [S2 EXCEPT !.fmm[a].since = t, !.fmm[a].inserts = 0]
        ELSE S1

\* _flush_all_fmm: persist() of every cached instance
RECURSIVE FlushAll(_, _)
FlushAll(S, as) ==
    IF as = {} THEN S
    ELSE LET a == CHOOSE x \in as : TRUE
         IN  FlushAll(PersistStore(S, a), as \ {a})

(***************************************************************************)
(* retrieval.py: the memory table                                          *)
(***************************************************************************)
\* ids of the rows of agent a, ascending (SELECT ... WHERE agent_id=?)
AgentIds(mem, a) ==
    LET Mine(i) == mem[i].agent = a
    IN  SelectSeq(Tup([i \in 1..Len(mem) |-> i], Len(mem)), Mine)

\* a slip the lookup could make: the fingerprint is matched across agents
FindRowAnyAgent(mem, a, fp) ==
    LET hits == {i \in 1..Len(mem) : mem[i].fingerprint = fp}
    IN  IF hits = {} THEN 0 ELSE CHOOSE i \in hits : \A k \in hits : i <= k
\* SELECT id,freq ... WHERE agent_id=? AND fingerprint=? LIMIT 1; 0 when no row
FindRow(mem, a, fp) ==
    LET hits == {i \in 1..Len(mem) : mem[i].agent = a /\ mem[i].fingerprint = fp}
    IN  IF hits = {} THEN 0 ELSE CHOOSE i \in hits : \A k \in hits : i <= k

\* metadata dicts as callers pass them: {"source": ...}, flat and JSON-native
Meta1 == <<[k |-> "source", t |-> "str", s |-> "m1", n |-> 0]>>
Meta2 == <<[k |-> "source", t |-> "str", s |-> "m2", n |-> 0],
           [k |-> "rank", t |-> "num", s |-> "", n |-> 2]>>

\* the INSERT of add_memory / add_batch: meta is stored as json.dumps(meta);
\* lastrowid is the new position
NewRow(a, text, meta, ts, v) ==
    [agent |-> a, ts |-> ts, text |-> text, meta |-> PayloadTokens(meta),
     vec |-> VecToBytes(v), fingerprint |-> Fingerprint(text), freq |-> 1]

\* a slip the upsert could make: a repeat also rewrites text and metadata
UpsertRewrite(mem, a, text, meta, ts, v) ==
    LET mid == FindRow(mem, a, Fingerprint(text))
    IN  IF mid # 0
        THEN [mem |-> [mem EXCEPT ![mid].ts = ts, ![mid].freq = mem[mid].freq + 1,
                                  ![mid].text = text, ![mid].meta = PayloadTokens(meta)],
              id |-> mid, created |-> FALSE]
        ELSE [mem |-> Append(mem, NewRow(a, text, meta, ts, v)),
              id |-> Len(mem) + 1, created |-> TRUE]
\* a slip the upsert could make: a repeat refreshes ts and leaves freq alone
UpsertNoBump(mem, a, text, meta, ts, v) ==
    LET mid == FindRow(mem, a, Fingerprint(text))
    IN  IF mid # 0
        THEN [mem |-> [mem EXCEPT ![mid].ts = ts], id |-> mid, created |-> FALSE]
        ELSE [mem |-> Append(mem, NewRow(a, text, meta, ts, v)),
              id |-> Len(mem) + 1, created |-> TRUE]
\* add_memory lines 249-268 / add_batch lines 287-297: update ts and freq of
\* the row with this fingerprint, or insert a new row with freq 1
Upsert(mem, a, text, meta, ts, v) ==
    LET mid == FindRow(mem, a, Fingerprint(text))
    IN  IF mid # 0
        THEN [mem |-> [mem EXCEPT ![mid].ts = ts, ![mid].freq = mem[mid].freq + 1],
              id |-> mid, created |-> FALSE]
        ELSE [mem |-> Append(mem, NewRow(a, text, meta, ts, v)),
              id |-> Len(mem) + 1, created |-> TRUE]

(***************************************************************************)
(* retrieval.py: the IVF index inside the tree                             *)
(* tree.ivf is tree["retrieval"]["ivf"]: the dim groups in dict order,     *)
(* each with its K entries in dict order                                   *)
(***************************************************************************)
GroupPos(ivf, dim) ==
    LET hits == {g \in 1..Len(ivf) : ivf[g].dim = dim}
    IN  IF hits = {} THEN 0 ELSE CHOOSE g \in hits : TRUE

KPos(ks, K) ==
    LET hits == {i \in 1..Len(ks) : ks[i].K = K}
    IN  IF hits = {} THEN 0 ELSE CHOOSE i \in hits : TRUE

\* the (dim, K, obj) triples in the order _ivf_read's two loops visit them
IvfEntries(ivf) ==
    Concat(Tup([g \in 1..Len(ivf) |->
                  Tup([i \in 1..Len(ivf[g].ks) |->
                          [dim |-> ivf[g].dim, K |-> ivf[g].ks[i].K,
                           obj |-> ivf[g].ks[i].obj]], Len(ivf[g].ks))], Len(ivf)))

\* _ivf_read: the first entry of the highest K under any dim, among the
\* entries whose "centroids" is a list; "dim" is the dim key where the dict
\* has none ({"dim": best[0], "K": best[1], **best[2]})
IvfRead(tree) ==
    LET HasCentroids(e) == "centroids" \notin Missing(e.obj)
        es == SelectSeq(IvfEntries(tree.ivf), HasCentroids)
    IN  IF es = <<>> THEN NoIndex
        ELSE LET b == CHOOSE i \in 1..Len(es) :
                        /\ \A k \in 1..Len(es) : es[k].K <= es[i].K
                        /\ \A k \in 1..(i - 1) : es[k].K < es[i].K
             IN  IF "dim" \in Missing(es[b].obj)
                 THEN WithMissing([es[b].obj EXCEPT !.dim = es[b].dim],
                                  Missing(es[b].obj) \ {"dim"})
                 ELSE es[b].obj

\* _ivf_write lines 371-379: cur[f"K{K}"] = obj under dim{dim}
IvfWriteTree(tree, obj) ==
    LET g == GroupPos(tree.ivf, obj.dim)
        e == [K |-> obj.K, obj |-> obj]
    IN  IF g = 0
        THEN [tree EXCEPT !.ivf = Append(@, [dim |-> obj.dim, ks |-> <<e>>])]
        ELSE LET i == KPos(tree.ivf[g].ks, obj.K)
             IN  IF i = 0
                 THEN [tree EXCEPT !.ivf[g].ks = Append(@, e)]
                 ELSE [tree EXCEPT !.ivf[g].ks[i] = e]

\* _ivf_write: store the index in the agent's tree, then persist()
IvfWrite(S, a, obj, t) ==
    LET S1 == Construct(S, a, t)
    IN  PersistStore([S1 EXCEPT !.fmm[a].tree = IvfWriteTree(@, obj)], a)

\* _ivf_add lines 469-479: the position of the largest K under one dim group
TargetK(ks) ==
    CHOOSE i \in 1..Len(ks) :
        /\ \A k \in 1..Len(ks) : ks[k].K <= ks[i].K
        /\ \A k \in 1..(i - 1) : ks[k].K < ks[i].K

\* a slip the append could make: the bucket keyed from 1 instead of 0
BucketAppendFromOne(obj, j, id) ==
    [obj EXCEPT !.buckets = IF (j + 1) \in DOMAIN obj.buckets
                            THEN [obj.buckets EXCEPT ![j + 1] = Append(@, id)]
                            ELSE obj.buckets @@ ((j + 1) :> <<id>>),
                !.count = obj.count + 1]
\* _ivf_add lines 485-492: append the id to bucket j and count it
BucketAppend(obj, j, id) ==
    WithMissing([obj EXCEPT !.buckets = IF j \in DOMAIN obj.buckets
                                        THEN [obj.buckets EXCEPT ![j] = Append(@, id)]
                                        ELSE obj.buckets @@ (j :> <<id>>),
                            !.count = obj.count + 1],
                Missing(obj) \ {"buckets"})

\* _ivf_add: append a new vector's id to the nearest bucket of the index
\* _ivf_read returns, if there is one, then persist()
IvfAdd(S, a, vec, id, t) ==
    LET S1 == Construct(S, a, t)
        tree == S1.fmm[a].tree
        idx == IvfRead(tree)
    IN  IF idx = NoIndex THEN S1
        ELSE IF idx.centroids = <<>> THEN S1
        ELSE LET dim == idx.dim
                 v == AlignDim(vec, dim)
                 j == ArgMaxDot(v, idx.centroids)
                 g == GroupPos(tree.ivf, dim)
                 i == TargetK(tree.ivf[g].ks)
                 S2 == [S1 EXCEPT !.fmm[a].tree.ivf[g].ks[i].obj =
                                      BucketAppend(@, j, id)]
             IN  PersistStore(S2, a)

(***************************************************************************)
(* retrieval.py: k-means and the index build                               *)
(***************************************************************************)
\* distance of V[i] to the nearest chosen seed
MinD2(V, chosen, i) ==
    LET ds == {L2(V[i], V[chosen[k]]) : k \in 1..Len(chosen)}
    IN  CHOOSE d \in ds : \A e \in ds : d <= e

\* _kmeans lines 400-415: the next seed is the first index whose running sum
\* of distances reaches r = random() * s: index 0 (r = 0, or all distances
\* zero) or any index of positive distance
NextSeeds(V, chosen) ==
    {1} \cup {i \in 1..Len(V) : MinD2(V, chosen, i) > 0}

RECURSIVE SeedSeqs(_, _, _)
SeedSeqs(V, K, chosen) ==
    IF Len(chosen) >= K THEN {chosen}
    ELSE UNION {SeedSeqs(V, K, Append(chosen, i)) : i \in NextSeeds(V, chosen)}

\* every seeding k-means++ can draw: positions in V (1-based), min(K, n) of them
KMeansSeeds(V, K) ==
    UNION {SeedSeqs(V, Min2(K, Len(V)), <<i>>) : i \in 1..Len(V)}

\* one Lloyd iteration: assign by maximal dot product, then replace each
\* non-empty cluster's centroid by its normalized mean
LloydStep(V, C) ==
    LET assign == Tup([i \in 1..Len(V) |-> ArgMaxDot(V[i], C)], Len(V))
    IN  Tup([jj \in 1..Len(C) |->
               LET members == {i \in 1..Len(V) : assign[i] = jj - 1}
                   n == Cardinality(members)
               IN  IF members = {} THEN C[jj]
                   ELSE NormList(Tup([d \in 1..Len(V[1]) |->
                           SumTo([i \in 1..Len(V) |->
                                    IF i \in members THEN V[i][d] ELSE 0], Len(V))
                           \div n], Len(V[1])))], Len(C))

RECURSIVE Lloyd(_, _, _)
Lloyd(V, C, iters) == IF iters = 0 THEN C ELSE Lloyd(V, LloydStep(V, C), iters - 1)

\* _kmeans for one draw of the seeds
KMeans(V, seeds, iters) ==
    Lloyd(V, Tup([k \in 1..Len(seeds) |-> V[seeds[k]]], Len(seeds)), Max2(1, iters))

\* _ivf_build lines 436-441: the agent's stored vectors aligned to the width
\* of the first one
BuildVectors(mem, a) ==
    LET ids == AgentIds(mem, a)
        dim == Len(mem[ids[1]].vec)
    IN  Tup([i \in 1..Len(ids) |-> AlignDim(BytesToVec(mem[ids[i]].vec), dim)], Len(ids))

\* a slip the build could make: the position in V stored in place of the row id
BucketsByPosition(ids, V, C) ==
    LET assign == Tup([i \in 1..Len(V) |-> ArgMaxDot(V[i], C)], Len(V))
    IN  [j \in 0..(Len(C) - 1) |->
            LET Here(i) == assign[i] = j
            IN  SelectSeq(Tup([i \in 1..Len(V) |-> i - 1], Len(V)), LAMBDA p : Here(p + 1))]

\* _ivf_build lines 444-448: each id goes to the bucket of maximal dot product
Buckets(ids, V, C) ==
    LET assign == Tup([i \in 1..Len(V) |-> ArgMaxDot(V[i], C)], Len(V))
    IN  [j \in 0..(Len(C) - 1) |->
            LET Here(i) == assign[i] = j
                pos == SelectSeq(Tup([i \in 1..Len(V) |-> i], Len(V)), Here)
            IN  Tup([k \in 1..Len(pos) |-> ids[pos[k]]], Len(pos))]

\* _ivf_build: the index object written for one draw of the seeds
BuildIndex(mem, a, seeds, iters, t) ==
    LET ids == AgentIds(mem, a)
        V == BuildVectors(mem, a)
        C == KMeans(V, seeds, iters)
    IN  [ts |-> t, dim |-> Len(V[1]), K |-> Len(C), count |-> Len(V),
         centroids |-> C, buckets |-> Buckets(ids, V, C)]

\* a slip the bucket selection could make: the slice stops one bucket early
CandidateIdsShort(idx, q, nprobe) ==
    LET C == idx.centroids
        dots == Tup([j \in 1..Len(C) |-> Dot(q, C[j])], Len(C))
        key == [j \in 0..(Len(C) - 1) |-> dots[j + 1]]
        order == Take(SortedDesc(Tup([j \in 1..Len(C) |-> j - 1], Len(C)), key), nprobe - 1)
    IN  Concat(Tup([k \in 1..Len(order) |->
                      IF order[k] \in DOMAIN idx.buckets
                      THEN idx.buckets[order[k]] ELSE <<>>], Len(order)))
(***************************************************************************)
(* retrieval.py: search_memory                                             *)
(***************************************************************************)
\* lines 544-550: ids of the nprobe buckets of largest centroid dot product
CandidateIds(idx, q, nprobe) ==
    LET C == idx.centroids
        dots == Tup([j \in 1..Len(C) |-> Dot(q, C[j])], Len(C))
        key == [j \in 0..(Len(C) - 1) |-> dots[j + 1]]
        order == Take(SortedDesc(Tup([j \in 1..Len(C) |-> j - 1], Len(C)), key), nprobe)
    IN  Concat(Tup([k \in 1..Len(order) |->
                      IF order[k] \in DOMAIN idx.buckets
                      THEN idx.buckets[order[k]] ELSE <<>>], Len(order)))

\* a slip the scoring could make: the stored vectors are used as they are
SimsUnaligned(mem, ids, q_raw, dim) ==
    LET q == AlignDim(q_raw, dim)
    IN  Tup([i \in 1..Len(ids) |-> Dot(BytesToVec(mem[ids[i]].vec), q)], Len(ids))
\* lines 555-563 / 565-571: the scores of the given rows at width dim
Sims(mem, ids, q_raw, dim) ==
    LET q == AlignDim(q_raw, dim)
    IN  Tup([i \in 1..Len(ids) |->
                Dot(AlignDim(BytesToVec(mem[ids[i]].vec), dim), q)], Len(ids))

\* lines 634-645: the top_k rows by descending score, ties in row order
TopK(ids, sims, top_k) ==
    LET order == Take(SortedDesc(Tup([i \in 1..Len(ids) |-> i], Len(ids)), sims), top_k)
    IN  Tup([k \in 1..Len(order) |-> [id |-> ids[order[k]], score |-> sims[order[k]]]],
            Len(order))

\* the exact scan over the agent's whole corpus
FullScan(mem, a, q_raw, top_k) ==
    LET ids == AgentIds(mem, a)
    IN  IF ids = <<>> THEN <<>>
        ELSE TopK(ids, Sims(mem, ids, q_raw, Len(mem[ids[1]].vec)), top_k)

\* search_memory without the optional re-ranking terms: hits as (id, score);
\* line 538: the index is used if it has centroids (_ivf_read) and buckets
SearchHits(mem, tree, a, query, top_k, nprobe, useIvf, qdim) ==
    LET q_raw == Embed(query, qdim)
        idx == IF useIvf THEN IvfRead(tree) ELSE NoIndex
    IN  IF idx = NoIndex \/ "buckets" \in Missing(idx) THEN FullScan(mem, a, q_raw, top_k)
        ELSE LET cand == CandidateIds(idx, AlignDim(q_raw, idx.dim), Max2(1, nprobe))
                 Hit(i) == mem[i].agent = a /\ i \in Range(cand)
                 rows == SelectSeq(Tup([i \in 1..Len(mem) |-> i], Len(mem)), Hit)
             IN  IF rows = <<>> THEN FullScan(mem, a, q_raw, top_k)
                 ELSE TopK(rows, Sims(mem, rows, q_raw, idx.dim), top_k)

\* lines 636-644: the "meta" of each hit is json.loads of the stored text
HitMetas(mem, hits) ==
    Tup([i \in 1..Len(hits) |-> PayloadOf(JsonLoads(mem[hits[i].id].meta))], Len(hits))

HitIds(hits) == {hits[i].id : i \in 1..Len(hits)}

(***************************************************************************)
(* State                                                                   *)
(***************************************************************************)
Agents == {"a1", "a2"}
Paths == {<<"kg">>}
\* a payload as cli.py line 2882 builds it: {"tick": i, "text": baton}
Baton(i, text) ==
    <<[k |-> "tick", t |-> "num", s |-> "", n |-> i],
      [k |-> "text", t |-> "str", s |-> text, n |-> 0]>>
Payloads == {Baton(1, "b")}
NormTexts == {NormalizeText(t) : t \in Texts}
KChoices == {2, 3}
ItersChoices == {3}

\* the tree the agent's store holds, or would load on first use
CurTree(f, d, a) == IF a \in DOMAIN f THEN f[a].tree ELSE LoadTree(d[a])

\* the locals of a thread that is in no call
Idle == [op |-> "idle", agent |-> "", text |-> <<>>, meta |-> <<>>, ts |-> 0,
         mid |-> 0, freq |-> 0, seen |-> 0]

NoOp == [op |-> "init", agent |-> "", ids |-> <<>>, created |-> FALSE,
         hadIndex |-> FALSE, built |-> <<>>, hits |-> <<>>,
         query |-> <<>>, top_k |-> 0, nprobe |-> 0, items |-> <<>>,
         meta |-> <<>>, metas |-> <<>>, decay |-> 0,
         text |-> <<>>, raised |-> FALSE, ivfFailed |-> FALSE,
         dbError |-> "none",
         paths |-> <<>>, source |-> "", readable |-> {}, count |-> 0,
         useFmm |-> TRUE,
         mode |-> "", texts |-> <<>>, vecs |-> <<>>, probed |-> FALSE,
         probeOk |-> TRUE, failAt |-> 0, stOk |-> TRUE, qdim |-> 0,
         prompt |-> <<>>]

Init ==
    /\ memories = <<>>
    /\ now = 0
    /\ fmm = <<>>
    /\ disk = [a \in Agents |-> NoFile]
    /\ exited = FALSE
    /\ calls = [k \in Agents \X NormTexts |-> 0]
    /\ last = NoOp
    /\ pc = [t \in Threads |-> "idle"]
    /\ loc = [t \in Threads |-> Idle]
    /\ dbLock = NoThread
    /\ jsonl = [a \in Agents |-> <<>>]
    /\ ollamaReady = "none"

(***************************************************************************)
(* The facade, one call at a time                                          *)
(***************************************************************************)
\* the store as a pair the store operators work on
Store(f, d) == [fmm |-> f, disk |-> d]

\* a slip add_memory could make: a repeated text is indexed again
AddMemoryResultAlwaysIndexes(mem, S, a, text, meta, t) ==
    LET v == Embed(text, DIM)
        r == Upsert(mem, a, text, meta, t, v)
    IN  [mem |-> r.mem, id |-> r.id, created |-> r.created,
         store |-> IvfAdd(S, a, v, r.id, t)]
\* add_memory lines 243-273 after the embedding: the upsert, the commit and,
\* for a new row, the incremental index insert
AddMemoryResult(mem, S, a, text, meta, t) ==
    LET v == Embed(text, DIM)
        r == Upsert(mem, a, text, meta, t, v)
    IN  [mem |-> r.mem, id |-> r.id, created |-> r.created,
         store |-> IF r.created THEN IvfAdd(S, a, v, r.id, t) ELSE S]

\* add_memory(agent_id, text, meta)
AddMemory(a, text, meta) ==
    /\ ~exited
    /\ \E r \in {AddMemoryResult(memories, Store(fmm, disk), a, text, meta, now)} :
         /\ memories' = r.mem
         /\ fmm' = r.store.fmm
         /\ disk' = r.store.disk
         /\ last' = [NoOp EXCEPT !.op = "add_memory", !.agent = a, !.ids = <<r.id>>,
                                 !.meta = meta,
                                 !.created = r.created,
                                 !.hadIndex = r.created
                                              /\ IvfRead(CurTree(fmm, disk, a)) # NoIndex]
    /\ calls' = [calls EXCEPT ![<<a, NormalizeText(text)>>] = @ + 1]
    /\ UNCHANGED <<now, exited, pc, loc, dbLock, jsonl, ollamaReady>>

\* a slip add_batch could make: every item is looked up in the table as it
\* was before the batch
RECURSIVE BatchUpsertSnapshot(_, _, _, _)
BatchUpsertSnapshot(mem, a, items, t) ==
    IF items = <<>> THEN [mem |-> mem, ids |-> <<>>]
    ELSE LET n == Len(items)
             head == BatchUpsertSnapshot(mem, a, SubSeq(items, 1, n - 1), t)
             r == Upsert(mem, a, items[n].text, items[n].meta, t, Embed(items[n].text, DIM))
         IN  [mem |-> IF r.created THEN Append(head.mem, r.mem[Len(r.mem)])
                      ELSE [head.mem EXCEPT ![r.id] = r.mem[r.id]],
              ids |-> Append(head.ids, IF r.created THEN Len(head.mem) + 1 ELSE r.id)]
\* add_batch lines 286-302: the per-item upsert, in order, on one connection
RECURSIVE BatchUpsert(_, _, _, _)
BatchUpsert(mem, a, items, t) ==
    IF items = <<>> THEN [mem |-> mem, ids |-> <<>>]
    ELSE LET it == items[1]
             r == Upsert(mem, a, it.text, it.meta, t, Embed(it.text, DIM))
             rest == BatchUpsert(r.mem, a, Tail(items), t)
         IN  [mem |-> rest.mem, ids |-> <<r.id>> \o rest.ids]

RECURSIVE CountCalls(_, _, _)
CountCalls(c, a, items) ==
    IF items = <<>> THEN c
    ELSE CountCalls([c EXCEPT ![<<a, NormalizeText(items[1].text)>>] = @ + 1],
                    a, Tail(items))

BatchItems(texts, metas) ==
    UNION {[1..n -> [text : texts, meta : metas]] : n \in 0..MaxBatch}

\* add_batch(agent_id, items)
AddBatch(a, items) ==
    /\ ~exited
    /\ calls' = CountCalls(calls, a, items)
    /\ \E r \in {BatchUpsert(memories, a, items, now)} :
         /\ memories' = r.mem
         /\ last' = [NoOp EXCEPT !.op = "add_batch", !.agent = a, !.ids = r.ids,
                                 !.items = items]
    /\ UNCHANGED <<now, fmm, disk, exited, pc, loc, dbLock, jsonl, ollamaReady>>

\* reindex(agent_id, K, iters): cmd_reindex lines 3143-3148, then _ivf_build
Reindex(a, K, iters) ==
    /\ ~exited
    /\ IF AgentIds(memories, a) = <<>>
       THEN /\ last' = [NoOp EXCEPT !.op = "reindex", !.agent = a]
            /\ UNCHANGED <<fmm, disk, ollamaReady>>
       ELSE \E seeds \in KMeansSeeds(BuildVectors(memories, a), Max2(2, K)) :
            \E obj \in {BuildIndex(memories, a, seeds, Max2(1, iters), now)} :
            \E S \in {IvfWrite(Store(fmm, disk), a, obj, now)} :
              /\ fmm' = S.fmm
              /\ disk' = S.disk
              /\ last' = [NoOp EXCEPT !.op = "reindex", !.agent = a,
                                      !.built = <<obj.dim, obj.K>>]
    /\ UNCHANGED <<memories, now, exited, calls, pc, loc, dbLock, jsonl, ollamaReady>>

\* search_memory(agent_id, query, top_k) with QJSON_RETR_IVF_NPROBE = nprobe
SearchMemory(a, query, top_k, nprobe) ==
    /\ ~exited
    /\ \E S \in {Construct(Store(fmm, disk), a, now)} :
       \E hits \in {SearchHits(memories, S.fmm[a].tree, a, query, top_k, nprobe, TRUE, DIM)} :
         /\ fmm' = S.fmm
         /\ last' = [NoOp EXCEPT !.op = "search", !.agent = a, !.query = query,
                        !.top_k = top_k, !.nprobe = nprobe,
                        !.hits = hits, !.metas = HitMetas(memories, hits)]
    /\ UNCHANGED <<memories, now, disk, exited, calls, pc, loc, dbLock, jsonl, ollamaReady>>

\* the add calls made so far, batch items included
RECURSIVE SumCalls(_, _)
SumCalls(c, ks) ==
    IF ks = {} THEN 0
    ELSE LET k == CHOOSE x \in ks : TRUE IN c[k] + SumCalls(c, ks \ {k})

CallsMade == SumCalls(calls, DOMAIN calls)

FreqRoom(a, items) ==
    \A k \in DOMAIN calls : CountCalls(calls, a, items)[k] <= MaxFreq

(***************************************************************************)
(* Spec: the memory table under sequential add_memory, add_batch, search   *)
(***************************************************************************)
Next ==
    \/ \E t \in {TextX, TextXY, TextXy2} :
         /\ CallsMade < MaxCalls
         /\ calls[<<"a1", NormalizeText(t)>>] < MaxFreq
         /\ AddMemory("a1", t, Meta1)
    \/ \E t \in {TextXpad} :
         /\ CallsMade < MaxCalls
         /\ calls[<<"a2", NormalizeText(t)>>] < MaxFreq
         /\ AddMemory("a2", t, Meta2)
    \/ \E items \in BatchItems({TextXpad, TextZ}, {Meta1}) :
         /\ CallsMade + Len(items) <= MaxCalls
         /\ FreqRoom("a1", items)
         /\ AddBatch("a1", items)
    \/ SearchMemory("a1", TextX, TOP_K_DEFAULT, NPROBE)

Spec == Init /\ [][Next]_vars

\* two texts are equivalent: the same words once the case is folded and the
\* whitespace runs are collapsed
SameWords(t1, t2) == Split(Lower(t1)) = Split(Lower(t2))

\* C1: after any sequence of sequential add_memory and add_batch calls the
\* table holds at most one row per (agent_id, fingerprint), the fingerprint
\* taken over the case-folded, whitespace-collapsed text: two rows of one
\* agent never carry equivalent texts, nor the same stored fingerprint.
C1_OneRowPerFingerprint ==
    \A i, j \in 1..Len(memories) :
        (/\ memories[i].agent = memories[j].agent
         /\ \/ SameWords(memories[i].text, memories[j].text)
            \/ memories[i].fingerprint = memories[j].fingerprint)
        => i = j

\* a batch has just repeated, in another spelling, a text stored before, next
\* to other rows of the same and of another agent
C1_Witness ==
    /\ last.op = "add_batch"
    /\ \E i \in 1..Len(memories) :
         /\ memories[i].agent = "a1"
         /\ memories[i].text = TextX
         /\ memories[i].freq = 2
         /\ i \in Range(last.ids)
    /\ \E i, j \in 1..Len(memories) :
         memories[i].agent = "a1" /\ memories[j].agent = "a2" /\ i < j
    /\ calls[<<"a1", NormalizeText(TextXY)>>] = 2

\* every row's frequency is the number of add calls made for its fingerprint
FreqCountsCalls ==
    \A i \in 1..Len(memories) :
        memories[i].freq = calls[<<memories[i].agent, NormalizeText(memories[i].text)>>]

\* an add_memory call that found its fingerprint stored returns the id of that
\* row, adds no row and raises that row's frequency, and no other, by one
RepeatBumps ==
    (last'.op = "add_memory" /\ calls' # calls /\ ~last'.created) =>
        LET mid == last'.ids[1]
        IN  /\ Len(memories') = Len(memories)
            /\ mid \in 1..Len(memories)
            /\ calls'[<<memories[mid].agent, NormalizeText(memories[mid].text)>>]
                 = calls[<<memories[mid].agent, NormalizeText(memories[mid].text)>>] + 1
            /\ memories[mid].agent = last'.agent
            /\ \A i \in 1..Len(memories) :
                 memories'[i].freq = memories[i].freq + (IF i = mid THEN 1 ELSE 0)

\* C2: add_memory with text whose normalized form equals that of a stored row
\* of the same agent returns that row's id and raises its frequency by exactly
\* 1, so a row's frequency always equals the number of add calls made for its
\* fingerprint.
C2_RepeatBumpsFrequency == []FreqCountsCalls /\ [][RepeatBumps]_vars

\* add_memory has just found its text stored, in a row that is not the first,
\* returned that row's id and left it with frequency 2
C2_Witness ==
    /\ last.op = "add_memory"
    /\ ~last.created
    /\ \E i \in 1..Len(memories) :
         /\ last.ids = <<i>>
         /\ memories[i].text = TextXpad
         /\ memories[i].freq = 2
         /\ i > 1

\* add_memory called on the items one after the other
RECURSIVE AddEach(_, _, _, _, _)
AddEach(mem, S, a, items, t) ==
    IF items = <<>> THEN mem
    ELSE LET r == AddMemoryResult(mem, S, a, items[1].text, items[1].meta, t)
         IN  AddEach(r.mem, r.store, a, Tail(items), t)

\* the table without its timestamps: the records in id order
Records(mem) ==
    Tup([i \in 1..Len(mem) |->
            [id |-> i, agent |-> mem[i].agent, text |-> mem[i].text,
             meta |-> mem[i].meta, vec |-> mem[i].vec,
             fingerprint |-> mem[i].fingerprint, freq |-> mem[i].freq]], Len(mem))

BatchEqualsAdds ==
    last'.op = "add_batch" =>
        Records(memories') =
            Records(AddEach(memories, Store(fmm, disk), last'.agent, last'.items, now))

\* C16: add_batch(agent_id, [i1..in]) leaves the memory table in the same
\* state (records, texts, fingerprints, frequencies) as add_memory called on
\* i1..in in order, also when items duplicate each other or existing records.
C16_BatchEqualsSequentialAdds == [][BatchEqualsAdds]_vars

\* a batch of two items with the same fingerprint has created one record and
\* repeated it, next to an older record of the agent
C16_Witness ==
    /\ last.op = "add_batch"
    /\ Len(last.items) = 2
    /\ last.ids[1] = last.ids[2]
    /\ last.ids[1] > 1
    /\ memories[last.ids[1]].freq = 2
    /\ memories[last.ids[1]].agent = memories[1].agent

(***************************************************************************)
(* SpecThreads: add_memory called from two threads, each on the connection *)
(* its own _ensure_db() opened.  A SELECT reads the committed rows; the     *)
(* first UPDATE or INSERT of a connection takes SQLite's write lock, which  *)
(* commit releases; the table has no UNIQUE constraint on the fingerprint.  *)
(***************************************************************************)
\* the add_memory calls for key k = <<agent, normalized text>> begun so far
Begun(k) ==
    calls[k] + Cardinality({t \in Threads :
                              /\ pc[t] # "idle"
                              /\ loc[t].agent = k[1]
                              /\ NormalizeText(loc[t].text) = k[2]})

\* lines 243-247: the connection, ts and the embedding
TBegin(t, a, text, meta) ==
    /\ pc[t] = "idle"
    /\ pc' = [pc EXCEPT ![t] = "select"]
    /\ loc' = [loc EXCEPT ![t] = [op |-> "add_memory", agent |-> a, text |-> text,
                                  meta |-> meta, ts |-> now, mid |-> 0, freq |-> 0,
                                  seen |-> 0]]
    /\ UNCHANGED <<memories, now, fmm, disk, exited, calls, last, dbLock, jsonl, ollamaReady>>

\* lines 250-252: SELECT id,freq ... LIMIT 1 and fetchone()
TSelect(t) ==
    /\ pc[t] = "select"
    /\ \E mid \in {FindRow(memories, loc[t].agent, Fingerprint(loc[t].text))} :
         loc' = [loc EXCEPT ![t].mid = mid,
                            ![t].freq = IF mid = 0 THEN 0 ELSE memories[mid].freq]
    /\ pc' = [pc EXCEPT ![t] = "write"]
    /\ UNCHANGED <<memories, now, fmm, disk, exited, calls, last, dbLock, jsonl, ollamaReady>>

\* line 254 (UPDATE) or lines 257-260 (INSERT): the statement opens the
\* connection's transaction and waits for the write lock; lastrowid is fixed
TWrite(t) ==
    /\ pc[t] = "write"
    /\ dbLock = NoThread
    /\ dbLock' = t
    /\ loc' = [loc EXCEPT ![t].mid = IF @ = 0 THEN Len(memories) + 1 ELSE @,
                          ![t].op = IF loc[t].mid = 0 THEN "insert" ELSE "update"]
    /\ pc' = [pc EXCEPT ![t] = "commit"]
    /\ UNCHANGED <<memories, now, fmm, disk, exited, calls, last, jsonl, ollamaReady>>

\* the history of a returned add_memory call
Returned(t, created) ==
    /\ calls' = [calls EXCEPT ![<<loc[t].agent, NormalizeText(loc[t].text)>>] = @ + 1]
    /\ last' = [NoOp EXCEPT !.op = "add_memory", !.agent = loc[t].agent,
                            !.ids = <<loc[t].mid>>, !.created = created]
    /\ pc' = [pc EXCEPT ![t] = "idle"]
    /\ loc' = [loc EXCEPT ![t] = Idle]

\* lines 255-256: commit of the UPDATE, return mid
TCommitUpdate(t) ==
    /\ pc[t] = "commit"
    /\ loc[t].op = "update"
    /\ memories' = [memories EXCEPT ![loc[t].mid].ts = loc[t].ts,
                                    ![loc[t].mid].freq = loc[t].freq + 1]
    /\ dbLock' = NoThread
    /\ Returned(t, FALSE)
    /\ UNCHANGED <<now, fmm, disk, exited, jsonl, ollamaReady>>

\* line 266: commit of the INSERT
TCommitInsert(t) ==
    /\ pc[t] = "commit"
    /\ loc[t].op = "insert"
    /\ memories' = Append(memories, NewRow(loc[t].agent, loc[t].text, loc[t].meta,
                                           loc[t].ts, Embed(loc[t].text, DIM)))
    /\ dbLock' = NoThread
    /\ pc' = [pc EXCEPT ![t] = "ivf_add"]
    /\ UNCHANGED <<now, fmm, disk, exited, calls, last, loc, jsonl, ollamaReady>>

\* lines 267-273: _ivf_add for the new row, return mid
TIvfAdd(t) ==
    /\ pc[t] = "ivf_add"
    /\ \E S \in {IvfAdd(Store(fmm, disk), loc[t].agent, Embed(loc[t].text, DIM),
                        loc[t].mid, now)} :
         /\ fmm' = S.fmm
         /\ disk' = S.disk
    /\ Returned(t, TRUE)
    /\ UNCHANGED <<memories, now, exited, dbLock, jsonl, ollamaReady>>

NextThreads ==
    \E t \in Threads :
        \/ \E text \in {TextX, TextXpad, TextZ} :
             /\ Begun(<<"a1", NormalizeText(text)>>) < MaxFreq
             /\ TBegin(t, "a1", text, Meta1)
        \/ TSelect(t)
        \/ TWrite(t)
        \/ TCommitUpdate(t)
        \/ TCommitInsert(t)
        \/ TIvfAdd(t)

SpecThreads == Init /\ [][NextThreads]_vars

\* the rows of agent k[1] whose text normalizes to k[2]
RowsOf(k) ==
    {i \in 1..Len(memories) :
        memories[i].agent = k[1] /\ NormalizeText(memories[i].text) = k[2]}

\* C3: add_memory is safe to call from multiple threads: when two threads call
\* it concurrently with equivalent text for the same agent, each on its own
\* connection, then once both have returned the table holds exactly one row
\* for that fingerprint and its frequency counts both calls.
C3_ConcurrentAddsUpsert ==
    (\A t \in Threads : pc[t] = "idle") =>
        \A k \in DOMAIN calls :
            calls[k] > 0 =>
                /\ Cardinality(RowsOf(k)) = 1
                /\ \A i \in RowsOf(k) : memories[i].freq = calls[k]

(***************************************************************************)
(* SpecSearch: writes, one rebuild setting and searches, one call at a time *)
(***************************************************************************)
NextSearch ==
    \/ \E t \in {TextX, TextZ} :
         CallsMade < MaxAdds /\ AddMemory("a1", t, Meta1)
    \/ \E items \in BatchItems({TextZ, TextXY}, {Meta1}) :
         CallsMade + Len(items) <= MaxAdds /\ AddBatch("a1", items)
    \/ Reindex("a1", 2, 3)
    \/ \E q \in {TextX, TextZ} : SearchMemory("a1", q, TOP_K_DEFAULT, NPROBE)

SpecSearch == Init /\ [][NextSearch]_vars

\* a search_memory step that directly follows a write of the same agent, with
\* every bucket probed and top_k no smaller than the agent's corpus
SearchAfterWrite ==
    /\ last.op \in {"add_memory", "add_batch"}
    /\ last'.op = "search"
    /\ last'.agent = last.agent
    /\ IvfRead(CurTree(fmm, disk, last.agent)).K <= NPROBE
    /\ Len(AgentIds(memories, last.agent)) <= TOP_K_DEFAULT

\* C4: once add_memory or add_batch has returned, the rows it wrote are
\* visible to the next search_memory for that agent: with every bucket probed
\* and top_k at least the corpus size, each just-written row is among the
\* hits, whether or not an index existed at the time of the write.
C4_WritesVisibleToSearch ==
    [][SearchAfterWrite => Range(last.ids) \subseteq HitIds(last'.hits)]_vars

(***************************************************************************)
(* SpecIndex: add_memory and rebuilds of the IVF index, one call at a time *)
(***************************************************************************)
NextIndex ==
    \/ \E t \in {TextX, TextZ, TextXY} :
         CallsMade < MaxAdds /\ AddMemory("a1", t, Meta1)
    \/ \E K \in KChoices, it \in ItersChoices : Reindex("a1", K, it)

SpecIndex == Init /\ [][NextIndex]_vars

\* the objects stored under dim{dim}/K{K} of a tree, in order (at most one)
IvfEntry(tree, dim, K) ==
    LET es == IvfEntries(tree.ivf)
        At(e) == e.dim = dim /\ e.K = K
    IN  SelectSeq(es, At)

\* all ids of the buckets 0..K-1 of an index object, bucket after bucket
BucketIds(obj) ==
    Concat(Tup([j \in 1..obj.K |->
                  IF (j - 1) \in DOMAIN obj.buckets THEN obj.buckets[j - 1] ELSE <<>>],
               obj.K))

\* reindex has just built an index over a non-empty corpus
JustBuilt == last.op = "reindex" /\ last.built # <<>>

\* C5: a rebuild replaces the prior index: once reindex has returned, the
\* index that the next search_memory reads and the next incremental insert
\* updates (the one _ivf_read returns) is the one just built, whatever K the
\* previous index was built with.
C5_RebuildReplacesIndex ==
    JustBuilt =>
        LET tree == fmm[last.agent].tree
            built == IvfEntry(tree, last.built[1], last.built[2])
        IN  /\ Len(built) = 1
            /\ IvfRead(tree) = built[1].obj

\* C7: immediately after reindex over an agent's corpus of N rows, every row
\* id of that agent appears in exactly one bucket of the index just built and
\* the bucket sizes sum to N, which equals the stored count.
C7_BuildPartitionsIds ==
    JustBuilt =>
        LET ids == AgentIds(memories, last.agent)
            built == IvfEntry(fmm[last.agent].tree, last.built[1], last.built[2])
            all == BucketIds(built[1].obj)
        IN  /\ Len(built) = 1
            /\ \A k \in 1..Len(ids) :
                 Cardinality({p \in 1..Len(all) : all[p] = ids[k]}) = 1
            /\ Len(all) = Len(ids)
            /\ built[1].obj.count = Len(ids)
            /\ DOMAIN built[1].obj.buckets = 0..(built[1].obj.K - 1)

\* an index of two clusters has just been built over three rows, so one
\* bucket holds two ids
C7_Witness ==
    /\ JustBuilt
    /\ last.built = <<DIM, 2>>
    /\ Len(AgentIds(memories, last.agent)) = 3
    /\ \E e \in Range(IvfEntry(fmm[last.agent].tree, DIM, 2)) :
         \E j \in DOMAIN e.obj.buckets : Len(e.obj.buckets[j]) = 2

\* the step of an add_memory call that created a row while an index existed
AddedUnderIndex ==
    /\ calls' # calls
    /\ last'.op = "add_memory"
    /\ last'.created
    /\ last'.hadIndex

\* that step appended the new id to one bucket of maximal dot product of the
\* index in use and changed nothing else in the agent's tree, and the new row
\* is among the hits of a search for its own text
AppendsToNearest ==
    LET a == last'.agent
        id == last'.ids[1]
        old == CurTree(fmm, disk, a)
        new == fmm'[a].tree
        idx == IvfRead(old)
        v == AlignDim(Embed(memories'[id].text, DIM), idx.dim)
        grown(j) == [idx EXCEPT !.buckets[j] = Append(@, id), !.count = @ + 1]
        eo == IvfEntries(old.ivf)
        en == IvfEntries(new.ivf)
    IN  /\ id = Len(memories')
        /\ new.data = old.data
        /\ Len(en) = Len(eo)
        /\ \E j \in DOMAIN idx.buckets :
             /\ \A k \in 1..Len(idx.centroids) :
                  Dot(v, idx.centroids[k]) <= Dot(v, idx.centroids[j + 1])
             /\ IvfRead(new) = grown(j)
             /\ IvfRead(new).centroids = idx.centroids
             /\ \A p \in 1..Len(eo) :
                  \/ en[p] = eo[p] /\ eo[p].obj # idx
                  \/ eo[p].obj = idx /\ en[p] = [eo[p] EXCEPT !.obj = grown(j)]
        /\ id \in HitIds(SearchHits(memories', new, a, memories'[id].text,
                                    TOP_K_DEFAULT, NPROBE, TRUE, DIM))

\* C8: when add_memory creates a new row while an index exists for the agent,
\* the row's id is appended to exactly one bucket, that of the centroid with
\* maximum dot product against the vector aligned to the index width; the
\* centroids and all other buckets stay unchanged, and the row is a search
\* candidate without any rebuild.
C8_IncrementalInsert == [][AddedUnderIndex => AppendsToNearest]_vars

\* add_memory has just created the third row under an index built over two
C8_Witness ==
    /\ last.op = "add_memory"
    /\ last.created
    /\ last.hadIndex
    /\ last.ids = <<3>>
    /\ IvfRead(fmm["a1"].tree).count = 3

(***************************************************************************)
(* SpecStore: the fractal store under inserts, explicit flushes, the clock, *)
(* index writes and the exit hook, one call at a time                      *)
(***************************************************************************)
RECURSIVE SumPayloads(_, _)
SumPayloads(data, ps) ==
    IF ps = {} THEN 0
    ELSE LET q == CHOOSE x \in ps : TRUE
         IN  Len(data[q]) + SumPayloads(data, ps \ {q})

\* the payloads held anywhere in a tree
PayloadCount(tree) ==
    SumPayloads(tree.data, DOMAIN tree.data)

\* PersistentFractalMemory(agent_id).insert(topic_path, data)
FmmInsert(a, path, payload) ==
    /\ ~exited
    /\ \E S \in {InsertStore(Construct(Store(fmm, disk), a, now), a, path, payload, now)} :
         /\ fmm' = S.fmm
         /\ disk' = S.disk
    /\ last' = [NoOp EXCEPT !.op = "insert", !.agent = a, !.paths = path, !.meta = payload]
    /\ UNCHANGED <<memories, now, exited, calls, pc, loc, dbLock, jsonl, ollamaReady>>

\* PersistentFractalMemory(agent_id).persist()
FmmPersist(a) ==
    /\ ~exited
    /\ \E S \in {PersistStore(Construct(Store(fmm, disk), a, now), a)} :
         /\ fmm' = S.fmm
         /\ disk' = S.disk
    /\ last' = [NoOp EXCEPT !.op = "persist", !.agent = a]
    /\ UNCHANGED <<memories, now, exited, calls, pc, loc, dbLock, jsonl, ollamaReady>>

\* time.time() moves on by a second
Tick ==
    /\ ~exited
    /\ now < MaxTime
    /\ now' = now + 1
    /\ UNCHANGED <<memories, fmm, disk, exited, calls, last, pc, loc, dbLock, jsonl, ollamaReady>>

\* interpreter exit: atexit runs _flush_all_fmm, then the process is gone
AtExit ==
    /\ ~exited
    /\ \E S \in {FlushAll(Store(fmm, disk), DOMAIN fmm)} :
         /\ fmm' = S.fmm
         /\ disk' = S.disk
    /\ exited' = TRUE
    /\ last' = [NoOp EXCEPT !.op = "exit"]
    /\ UNCHANGED <<memories, now, calls, pc, loc, dbLock, jsonl, ollamaReady>>

NextStore ==
    \/ \E t \in {TextX, TextZ} :
         CallsMade < MaxStoreAdds /\ AddMemory("a1", t, Meta1)
    \/ Reindex("a1", 2, 3)
    \/ \E path \in Paths, payload \in Payloads :
         /\ "a1" \in DOMAIN fmm => PayloadCount(fmm["a1"].tree) < MaxInserts
         /\ FmmInsert("a1", path, payload)
    \/ FmmPersist("a1")
    \/ Tick
    \/ AtExit

SpecStore == Init /\ [][NextStore]_vars

\* the call that returned last changed the agent's index: a build, or an
\* add_memory that appended a new id to a bucket
IndexMutated ==
    \/ last.op = "reindex" /\ last.built # <<>>
    \/ last.op = "add_memory" /\ last.created /\ last.hadIndex

\* C6: every index mutation is durable when the mutating call returns: after
\* reindex has built an index, and after add_memory has appended an id to a
\* bucket, the agent's tree file on disk holds the updated index, so a new
\* process reopening the store reads that index.
C6_IndexWritesDurable ==
    IndexMutated =>
        /\ disk[last.agent].exists
        /\ LoadTree(disk[last.agent]).ivf = fmm[last.agent].tree.ivf

\* C10: at process exit the hook flushes every live store unconditionally:
\* once it has run, each registered store's tree file holds what its
\* in-memory tree holds, tree changes made without insert (the index written
\* by reindex or by an incremental insert) included.
C10_ExitFlushesEveryStore ==
    exited => \A a \in DOMAIN fmm : LoadTree(disk[a]) = fmm[a].tree

(***************************************************************************)
(* SpecFmm: the fractal stores of two agents under constructions, inserts, *)
(* explicit flushes, direct index writes, the clock, exit and restart      *)
(***************************************************************************)
\* PersistentFractalMemory(agent_id) and nothing else
FmmOpen(a) ==
    /\ ~exited
    /\ fmm' = Construct(Store(fmm, disk), a, now).fmm
    /\ last' = [NoOp EXCEPT !.op = "open", !.agent = a]
    /\ UNCHANGED <<memories, now, disk, exited, calls, pc, loc, dbLock, jsonl, ollamaReady>>

\* an index over rows 1 and 2 as a build would write it
SmallIndex ==
    [ts |-> 0, dim |-> DIM, K |-> 2, count |-> 2,
     centroids |-> <<Embed(TextX, DIM), Embed(TextZ, DIM)>>,
     buckets |-> (0 :> <<1>>) @@ (1 :> <<2>>)]

\* _ivf_write(agent_id, ...) for a given index
FmmIvfWrite(a, obj) ==
    /\ ~exited
    /\ \E S \in {IvfWrite(Store(fmm, disk), a, obj, now)} :
         /\ fmm' = S.fmm
         /\ disk' = S.disk
    /\ last' = [NoOp EXCEPT !.op = "ivf_write", !.agent = a]
    /\ UNCHANGED <<memories, now, exited, calls, pc, loc, dbLock, jsonl, ollamaReady>>

\* a new process starts once the old one is gone: the cache is empty, the
\* files are as they were left
Start ==
    /\ exited
    /\ exited' = FALSE
    /\ fmm' = <<>>
    /\ ollamaReady' = "none"
    /\ last' = [NoOp EXCEPT !.op = "start"]
    /\ UNCHANGED <<memories, now, disk, calls, pc, loc, dbLock, jsonl>>

\* the payloads held in the stores of both agents
StoredPayloads ==
    PayloadCount(CurTree(fmm, disk, "a1")) + PayloadCount(CurTree(fmm, disk, "a2"))

\* a node with data and a child node with data; two different payloads
FmmPaths == {<<"kg">>, <<"kg", "nodes">>}
FmmPayloads == {Baton(1, "b"), Baton(2, "c")}

NextFmm ==
    \/ \E a \in Agents : FmmOpen(a)
    \/ \E path \in FmmPaths, payload \in FmmPayloads :
         /\ StoredPayloads < MaxInserts
         /\ FmmInsert("a1", path, payload)
    \/ \E path \in Paths, payload \in Payloads :
         /\ StoredPayloads < MaxInserts
         /\ FmmInsert("a2", path, payload)
    \/ \E a \in Agents : FmmPersist(a)
    \/ FmmIvfWrite("a1", SmallIndex)
    \/ Tick
    \/ AtExit
    \/ Start

SpecFmm == Init /\ [][NextFmm]_vars

\* the instance a call on agent a works on: the cached one, or the one the
\* construction at the head of the call loads
Handle(a) == Construct(Store(fmm, disk), a, now).fmm[a]

\* the step is a call of the given kind (the clock stands still during a call)
CallStep(op) == now' = now /\ last'.op = op /\ ~exited'

\* an insert flushes if and only if it is due, a flush writes the whole tree
\* and resets counter and timer, and an insert that is not due writes nothing
InsertFlushesWhenDue ==
    CallStep("insert") =>
        LET a == last'.agent
            pre == Handle(a)
            post == fmm'[a]
            due == \/ pre.inserts + 1 >= BatchSize
                   \/ (now - pre.since) >= FlushSec
        IN  /\ PayloadCount(post.tree) = PayloadCount(pre.tree) + 1
            /\ due => /\ disk'[a] = WrittenFile(JsonDumps(post.tree))
                      /\ post.inserts = 0
                      /\ post.since = now
                      /\ ~post.dirty
            /\ ~due => /\ disk'[a] = disk[a]
                       /\ post.inserts = pre.inserts + 1
                       /\ post.since = pre.since
                       /\ post.dirty

\* C11: insert(path, payload) flushes automatically exactly when, the insert
\* counted, the counter has reached the batch size or at least the flush
\* interval has elapsed since the last automatic flush (or construction); the
\* flush persists the tree and resets counter and timer; any other insert
\* writes no file.
C11_InsertFlushPolicy == [][InsertFlushesWhenDue]_vars

\* an insert has just flushed on age alone: one payload, below the batch size,
\* in a store constructed FlushSec seconds earlier
C11_Witness ==
    /\ last.op = "insert"
    /\ last.agent \in DOMAIN fmm
    /\ PayloadCount(fmm[last.agent].tree) = 1
    /\ fmm[last.agent].inserts = 0
    /\ fmm[last.agent].since = now
    /\ now >= FlushSec
    /\ ~fmm[last.agent].dirty
    /\ disk[last.agent].exists

\* persist() on a clean store changes nothing; on a dirty store it writes the
\* whole tree and clears the flag, and leaves tree, counter and timer alone
PersistWritesOnlyDirty ==
    CallStep("persist") =>
        LET a == last'.agent
            pre == Handle(a)
            post == fmm'[a]
        IN  /\ \A b \in Agents \ {a} : disk'[b] = disk[b]
            /\ ~pre.dirty => disk'[a] = disk[a] /\ post = pre
            /\ pre.dirty => /\ disk'[a] = WrittenFile(JsonDumps(pre.tree))
                            /\ post = [pre EXCEPT !.dirty = FALSE]

\* C12: persist() writes the tree file only when the store is dirty: on a
\* clean store it leaves the file contents and the store's tree, counter and
\* timer unchanged, and on a dirty store it overwrites the file with the full
\* current tree and clears the dirty flag.
C12_PersistOnlyIfDirty == [][PersistWritesOnlyDirty]_vars

\* persist() has just returned on a store that holds an index and one payload
\* counted since the last automatic flush: the file holds both
C12_Witness ==
    /\ last.op = "persist"
    /\ last.agent \in DOMAIN fmm
    /\ ~fmm[last.agent].dirty
    /\ fmm[last.agent].inserts = 1
    /\ fmm[last.agent].tree.ivf # <<>>
    /\ disk[last.agent] = WrittenFile(JsonDumps(fmm[last.agent].tree))

\* within one process a cached store changes only through a call on its own
\* agent id other than a bare construction, and it stays cached
OneHandlePerAgent ==
    (~exited /\ ~exited') =>
        \A a \in DOMAIN fmm :
            /\ a \in DOMAIN fmm'
            /\ (last'.op = "open" \/ last'.agent # a) => fmm'[a] = fmm[a]
            /\ (now' = now /\ last'.agent = a /\ last'.op \in {"insert", "persist"}) =>
                   /\ PayloadCount(fmm'[a].tree) >= PayloadCount(fmm[a].tree)
                   /\ fmm'[a].tree.ivf = fmm[a].tree.ivf

\* C13: constructing PersistentFractalMemory for an agent id always returns
\* the same handle within a process: after any sequence of constructions,
\* inserts and persists there is one in-memory tree per agent id, a later
\* construction neither reloads the tree from disk nor resets the dirty flag,
\* counter or timer, and different agent ids get different handles.
C13_SingletonPerAgent == [][OneHandlePerAgent]_vars

\* a1's store has just been constructed again while it is dirty, older than
\* the clock and different from its file, next to a2's store with another tree
C13_Witness ==
    /\ last.op = "open"
    /\ last.agent = "a1"
    /\ DOMAIN fmm = {"a1", "a2"}
    /\ fmm["a1"].dirty
    /\ fmm["a1"].inserts = 1
    /\ fmm["a1"].since < now
    /\ fmm["a1"].tree # LoadTree(disk["a1"])
    /\ fmm["a2"].tree # fmm["a1"].tree

\* persist() on a dirty store leaves a file from which a fresh process
\* constructs the tree the store holds
PersistRoundTrips ==
    (CallStep("persist") /\ Handle(last'.agent).dirty) =>
        /\ NewInst(disk'[last'.agent], now').tree = Handle(last'.agent).tree
        /\ fmm'[last'.agent].tree = Handle(last'.agent).tree

\* C14: round-trip persistence: after persist() on a dirty store, a fresh
\* process that opens the store of the same agent id reconstructs a tree
\* identical to the persisted one (same paths, same data sequences, same
\* per-leaf insertion order).
C14_PersistRoundTrip == [][PersistRoundTrips]_vars

\* persist() has just written a tree with an index and a leaf that holds two
\* different payloads, the larger tick first, and the file parses to that tree
C14_Witness ==
    /\ last.op = "persist"
    /\ last.agent = "a1"
    /\ "a1" \in DOMAIN fmm
    /\ ~fmm["a1"].dirty
    /\ fmm["a1"].inserts = 1
    /\ fmm["a1"].tree.ivf # <<>>
    /\ DOMAIN fmm["a1"].tree.data = {<<"kg", "nodes">>}
    /\ fmm["a1"].tree.data[<<"kg", "nodes">>] = <<Baton(2, "c"), Baton(1, "b")>>
    /\ disk["a1"] = WrittenFile(JsonDumps(fmm["a1"].tree))
    /\ LoadTree(disk["a1"]) = fmm["a1"].tree

(***************************************************************************)
(* SpecProbe: one agent adds records, rebuilds its index and searches, with *)
(* QJSON_RETR_IVF_NPROBE set to 1 or to 2, or with a small top_k.           *)
(***************************************************************************)
TextBlank == <<" ", " ">>
TextEmpty == <<>>
Queries == {TextX, TextXY, TextBlank, TextEmpty}
Probes == {1, 2}
TopKs == {1, 2}

NextProbe ==
    \/ \E t \in {TextX, TextYX, TextXY} :
         CallsMade < MaxAdds /\ AddMemory("a1", t, Meta1)
    \/ \E it \in ItersChoices : Reindex("a1", 2, it)
    \/ \E q \in Queries, nprobe \in Probes :
         SearchMemory("a1", q, TOP_K_DEFAULT, nprobe)
    \/ \E q \in Queries, top_k \in TopKs :
         SearchMemory("a1", q, top_k, NPROBE)

SpecProbe == Init /\ [][NextProbe]_vars

\* the index the last search read
IndexRead == IvfRead(CurTree(fmm, disk, last.agent))

\* the last call was a search that probed all K >= 2 buckets of an index whose
\* buckets hold exactly the ids of the agent's rows
ProbedWholeIndex ==
    /\ last.op = "search"
    /\ IndexRead.K >= 2
    /\ last.nprobe = IndexRead.K
    /\ Range(BucketIds(IndexRead)) = Range(AgentIds(memories, last.agent))

C19_BlankQueryReturnsNothing ==
    (last.op = "search" /\ NormalizeText(last.query) = <<>>) => last.hits = <<>>

\* the hits of the last search: no more than top_k, scores never increasing,
\* equal scores in ascending id order
HitsRanked ==
    /\ Len(last.hits) <= last.top_k
    /\ \A k \in 1..(Len(last.hits) - 1) :
         /\ last.hits[k].score >= last.hits[k + 1].score
         /\ last.hits[k].score = last.hits[k + 1].score
              => last.hits[k].id < last.hits[k + 1].id

Supplied == {<<TextX, Meta1>>, <<TextXpad, Meta2>>, <<TextZ, Meta1>>}
SuppliedWith(text) == IF text = TextXpad THEN Meta2 ELSE Meta1

NextAgents ==
    \/ \E tm \in Supplied :
         CallsMade < MaxAdds /\ AddMemory("a1", tm[1], tm[2])
    \/ CallsMade < MaxAdds /\ AddMemory("a2", TextX, Meta1)
    \/ \E items \in BatchItems({TextXpad}, {Meta2}) :
         CallsMade + Len(items) <= MaxAdds /\ AddBatch("a2", items)
    \/ \E a \in Agents : Reindex(a, 2, 3)
    \/ \E a \in Agents : SearchMemory(a, TextX, TOP_K_DEFAULT, NPROBE)

SpecAgents == Init /\ [][NextAgents]_vars

\* no step removes a row or changes a row's agent, text, metadata, embedding
\* or fingerprint; ts and freq change only in the rows an add call repeats
RecordsKept ==
    /\ Len(memories') >= Len(memories)
    /\ \A i \in 1..Len(memories) :
         /\ memories'[i].agent = memories[i].agent
         /\ memories'[i].text = memories[i].text
         /\ memories'[i].meta = memories[i].meta
         /\ memories'[i].vec = memories[i].vec
         /\ memories'[i].fingerprint = memories[i].fingerprint
         /\ memories'[i] # memories[i] =>
               /\ last'.op \in {"add_memory", "add_batch"}
               /\ i \in Range(last'.ids)
               /\ memories'[i].agent = last'.agent
    /\ \A i \in (Len(memories) + 1)..Len(memories') :
         /\ last'.op \in {"add_memory", "add_batch"}
         /\ PayloadOf(JsonLoads(memories'[i].meta)) = SuppliedWith(memories'[i].text)

\* every hit of the last search carries the metadata its record was created with
HitsCarryCreationMeta ==
    last.op = "search" =>
        \A k \in 1..Len(last.hits) :
            last.metas[k] = SuppliedWith(memories[last.hits[k].id].text)

\* C17: memory records are never deleted by add_memory, add_batch,
\* search_memory or reindex, and a duplicate add changes only the existing
\* record's timestamp and frequency: id, agent_id, text, metadata and
\* embedding stay as first written, so hits return the metadata supplied when
\* the record was created.
C17_RecordsAppendOnly == [][RecordsKept]_vars /\ []HitsCarryCreationMeta

\* a search has just returned a record created with one metadata dict and
\* since repeated by an add that passed another text and another dict
C17_Witness ==
    /\ last.op = "search"
    /\ \E k \in 1..Len(last.hits) :
         /\ memories[last.hits[k].id].freq = 2
         /\ memories[last.hits[k].id].text = TextXpad
         /\ last.metas[k] = Meta2
         /\ calls[<<last.agent, NormalizeText(TextX)>>] = 2

\* the rows of agent b, with their ids
RowsOfAgent(mem, b) == {<<i, mem[i]>> : i \in {k \in 1..Len(mem) : mem[k].agent = b}}

\* a call for one agent leaves the rows, the store and the file of the other
\* agent alone, and a search returns rows of the searching agent only
OtherAgentUntouched ==
    last'.op \in {"add_memory", "add_batch", "reindex", "search"} =>
        /\ \A b \in Agents \ {last'.agent} :
             /\ RowsOfAgent(memories', b) = RowsOfAgent(memories, b)
             /\ CurTree(fmm', disk', b) = CurTree(fmm, disk, b)
             /\ disk'[b] = disk[b]
             /\ b \in DOMAIN fmm => (b \in DOMAIN fmm' /\ fmm'[b] = fmm[b])
        /\ last'.op = "search" =>
             \A k \in 1..Len(last'.hits) : memories[last'.hits[k].id].agent = last'.agent

\* C18: operations on one agent never affect another: add_memory, add_batch
\* and reindex for agent A leave agent B's records, frequencies, index and
\* tree unchanged (even when A and B add identical text), and search_memory
\* for B never returns a record of A.
C18_AgentsIsolated == [][OtherAgentUntouched]_vars

\* a1 has just created its own record of words a2 already stores, while both
\* agents hold an index
C18_Witness ==
    /\ last.op = "add_memory"
    /\ last.agent = "a1"
    /\ last.created
    /\ last.hadIndex
    /\ \E i \in 1..Len(memories) :
         /\ memories[i].agent = "a2"
         /\ memories[i].fingerprint = memories[last.ids[1]].fingerprint
         /\ memories[i].freq = 1
    /\ IvfRead(CurTree(fmm, disk, "a1")) # NoIndex
    /\ IvfRead(CurTree(fmm, disk, "a2")) # NoIndex

(***************************************************************************)
(* SpecDecay: one agent adds records at different times and searches with   *)
(* a recency decay.  In this specification a clock tick is one day.         *)
(***************************************************************************)
\* lines 536-589: the rows search_memory scores, with their raw similarities
SearchRows(mem, tree, a, query, nprobe, useIvf, qdim) ==
    LET q_raw == Embed(query, qdim)
        idx == IF useIvf THEN IvfRead(tree) ELSE NoIndex
        all == AgentIds(mem, a)
        scan == IF all = <<>> THEN [ids |-> <<>>, sims |-> <<>>]
                ELSE [ids |-> all, sims |-> Sims(mem, all, q_raw, Len(mem[all[1]].vec))]
    IN  IF idx = NoIndex \/ "buckets" \in Missing(idx) THEN scan
        ELSE LET cand == CandidateIds(idx, AlignDim(q_raw, idx.dim), Max2(1, nprobe))
                 Hit(i) == mem[i].agent = a /\ i \in Range(cand)
                 rows == SelectSeq(Tup([i \in 1..Len(mem) |-> i], Len(mem)), Hit)
             IN  IF rows = <<>> THEN scan
                 ELSE [ids |-> rows, sims |-> Sims(mem, rows, q_raw, idx.dim)]

\* math.exp(-n) in units of 1 / ExpUnit, for whole n >= 0
RECURSIVE ExpNeg(_)
ExpNeg(n) == IF n <= 0 THEN ExpUnit ELSE (ExpNeg(n - 1) * 3679) \div 10000

\* lines 623-626: s * exp(-time_decay * age_days), age_days = now - ts
TimeDecay(mem, ids, sims, time_decay, t) ==
    Tup([i \in 1..Len(ids) |->
            (sims[i] * ExpNeg(time_decay * (t - mem[ids[i]].ts))) \div ExpUnit], Len(ids))

\* search_memory with time_decay and without the other re-ranking terms
SearchHitsDecay(mem, tree, a, query, top_k, nprobe, useIvf, qdim, time_decay, t) ==
    LET r == SearchRows(mem, tree, a, query, nprobe, useIvf, qdim)
    IN  IF r.ids = <<>> THEN <<>>
        ELSE TopK(r.ids,
                  IF time_decay > 0 THEN TimeDecay(mem, r.ids, r.sims, time_decay, t)
                  ELSE r.sims,
                  top_k)

\* search_memory(agent_id, query, top_k, time_decay=time_decay)
SearchDecay(a, query, top_k, nprobe, time_decay) ==
    /\ ~exited
    /\ \E S \in {Construct(Store(fmm, disk), a, now)} :
       \E hits \in {SearchHitsDecay(memories, S.fmm[a].tree, a, query, top_k, nprobe,
                                    TRUE, DIM, time_decay, now)} :
         /\ fmm' = S.fmm
         /\ last' = [NoOp EXCEPT !.op = "search_decay", !.agent = a, !.query = query,
                        !.top_k = top_k, !.nprobe = nprobe, !.decay = time_decay,
                        !.hits = hits, !.metas = HitMetas(memories, hits)]
    /\ UNCHANGED <<memories, now, disk, exited, calls, pc, loc, dbLock, jsonl, ollamaReady>>

DecayRates == {0, 1, 2}

NextDecay ==
    \/ \E t \in {TextXY, TextYX, TextX} :
         CallsMade < MaxAdds /\ AddMemory("a1", t, Meta1)
    \/ Tick
    \/ \E q \in {TextX, TextZ}, d \in DecayRates :
         SearchDecay("a1", q, TOP_K_DEFAULT, NPROBE, d)

SpecDecay == Init /\ [][NextDecay]_vars

\* the raw cosine similarity of a stored row to the last query
RawSim(id) == Sims(memories, <<id>>, Embed(last.query, DIM), DIM)[1]

\* C21: for two records of equal raw cosine similarity (of any sign) and
\* different ages, a positive decay rate never puts the older record's final
\* score above the newer record's (with no decay the two scores are equal).
C21_DecayNeverFavoursOlder ==
    (last.op = "search_decay" /\ last.decay > 0) =>
        \A i, j \in 1..Len(last.hits) :
            (/\ RawSim(last.hits[i].id) = RawSim(last.hits[j].id)
             /\ memories[last.hits[i].id].ts < memories[last.hits[j].id].ts)
                => last.hits[i].score <= last.hits[j].score

(***************************************************************************)
(* SpecFail: one agent adds records while the index insert or the database  *)
(* may fail.                                                                *)
(***************************************************************************)
\* _ivf_add up to its persist(): the bucket append and count + 1, not written
IvfAddNoPersist(S, a, vec, id, t) ==
    LET S1 == Construct(S, a, t)
        tree == S1.fmm[a].tree
        idx == IvfRead(tree)
    IN  IF idx = NoIndex \/ idx.centroids = <<>> THEN S1
        ELSE LET v == AlignDim(vec, idx.dim)
                 j == ArgMaxDot(v, idx.centroids)
                 g == GroupPos(tree.ivf, idx.dim)
                 i == TargetK(tree.ivf[g].ks)
             IN  [S1 EXCEPT !.fmm[a].tree.ivf[g].ks[i].obj = BucketAppend(@, j, id)]

\* the states _ivf_add can leave the store in when it raises: before the
\* bucket is touched, at persist()'s mkdir, or inside write_text of a dirty
\* store after the file has been truncated
IvfAddFailures(S, a, vec, id, t) ==
    LET S1 == Construct(S, a, t)
        S2 == IvfAddNoPersist(S, a, vec, id, t)
    IN  {S1, S2} \cup (IF S2.fmm[a].dirty
                       THEN {[S2 EXCEPT !.disk[a] = TruncatedFile]} ELSE {})

\* a slip add_memory could make: the exception of _ivf_add escapes before the
\* commit, so the record is lost and no id is returned
AddMemoryIvfRaisesAborts(mem, S, a, text, meta, t) ==
    {[mem |-> mem, id |-> 0, created |-> FALSE, store |-> S1, raised |-> TRUE] :
        S1 \in IvfAddFailures(S, a, Embed(text, DIM), Len(mem) + 1, t)}
\* add_memory lines 246-273 when _ivf_add raises: the row is committed at line
\* 266, the exception is swallowed at line 271 and the id is returned
AddMemoryIvfRaises(mem, S, a, text, meta, t) ==
    LET v == Embed(text, DIM)
        r == Upsert(mem, a, text, meta, t, v)
    IN  {[mem |-> r.mem, id |-> r.id, created |-> r.created, store |-> S1,
          raised |-> FALSE] : S1 \in IvfAddFailures(S, a, v, r.id, t)}

\* add_memory(agent_id, text, meta) creating a record while _ivf_add fails
AddMemoryIvfFails(a, text, meta) ==
    /\ ~exited
    /\ FindRow(memories, a, Fingerprint(text)) = 0
    /\ IvfRead(CurTree(fmm, disk, a)) # NoIndex
    /\ \E r \in AddMemoryIvfRaises(memories, Store(fmm, disk), a, text, meta, now) :
         /\ memories' = r.mem
         /\ fmm' = r.store.fmm
         /\ disk' = r.store.disk
         /\ last' = [NoOp EXCEPT !.op = "add_memory", !.agent = a,
                                 !.ids = IF r.raised THEN <<>> ELSE <<r.id>>,
                                 !.meta = meta, !.text = text,
                                 !.created = r.created, !.hadIndex = TRUE,
                                 !.raised = r.raised, !.ivfFailed = TRUE]
         /\ calls' = IF r.raised THEN calls
                     ELSE [calls EXCEPT ![<<a, NormalizeText(text)>>] = @ + 1]
    /\ UNCHANGED <<now, exited, pc, loc, dbLock, jsonl, ollamaReady>>

\* where sqlite3 raises during a call: nowhere, in _ensure_db, in an execute
\* of the upsert, or in the commit
DbPoints == {"none", "open", "write", "commit"}

\* a slip add_memory could make: an error of the commit is swallowed and the
\* id of the uncommitted row is returned
AddMemoryDbSwallowed(mem, S, a, text, meta, t, point) ==
    IF point = "none"
    THEN AddMemoryResult(mem, S, a, text, meta, t)
    ELSE [mem |-> mem, id |-> Upsert(mem, a, text, meta, t, Embed(text, DIM)).id,
          created |-> FALSE, store |-> S]
\* add_memory lines 243-273 with sqlite3 raising at `point`: no statement
\* of the function catches the error, so the call ends there, the
\* connection is dropped uncommitted and _ivf_add is never reached
AddMemoryDb(mem, S, a, text, meta, t, point) ==
    IF point = "none"
    THEN AddMemoryResult(mem, S, a, text, meta, t)
    ELSE [mem |-> mem, id |-> 0, created |-> FALSE, store |-> S]

\* add_batch lines 278-303 with sqlite3 raising at `point`: the empty batch
\* returns before the database is opened; otherwise the error leaves the
\* function before the single commit of line 303
AddBatchDb(mem, a, items, t, point) ==
    IF point = "none" \/ items = <<>>
    THEN BatchUpsert(mem, a, items, t)
    ELSE [mem |-> mem, ids |-> <<>>]

\* add_memory(agent_id, text, meta) over a database that may fail
AddMemoryMayRaise(a, text, meta, point) ==
    /\ ~exited
    /\ \E r \in {AddMemoryDb(memories, Store(fmm, disk), a, text, meta, now, point)} :
         /\ memories' = r.mem
         /\ fmm' = r.store.fmm
         /\ disk' = r.store.disk
         /\ last' = [NoOp EXCEPT !.op = "add_memory", !.agent = a,
                                 !.ids = IF r.id = 0 THEN <<>> ELSE <<r.id>>,
                                 !.meta = meta, !.text = text,
                                 !.created = r.created,
                                 !.hadIndex = r.created
                                              /\ IvfRead(CurTree(fmm, disk, a)) # NoIndex,
                                 !.raised = (r.id = 0), !.dbError = point]
         /\ calls' = IF r.id = 0 THEN calls
                     ELSE [calls EXCEPT ![<<a, NormalizeText(text)>>] = @ + 1]
    /\ UNCHANGED <<now, exited, pc, loc, dbLock, jsonl, ollamaReady>>

\* add_batch(agent_id, items) over a database that may fail
AddBatchMayRaise(a, items, point) ==
    /\ ~exited
    /\ \E r \in {AddBatchDb(memories, a, items, now, point)} :
         /\ memories' = r.mem
         /\ last' = [NoOp EXCEPT !.op = "add_batch", !.agent = a, !.ids = r.ids,
                                 !.items = items,
                                 !.raised = (point # "none" /\ items # <<>>),
                                 !.dbError = point]
         /\ calls' = IF point # "none" THEN calls ELSE CountCalls(calls, a, items)
    /\ UNCHANGED <<now, fmm, disk, exited, pc, loc, dbLock, jsonl, ollamaReady>>

NextFail ==
    \/ \E t \in {TextX, TextZ, TextXY}, point \in DbPoints :
         CallsMade < MaxAdds /\ AddMemoryMayRaise("a1", t, Meta1, point)
    \/ Reindex("a1", 2, 3)
    \/ \E t \in {TextX, TextZ, TextXY} :
         CallsMade < MaxAdds /\ AddMemoryIvfFails("a1", t, Meta1)
    \/ \E items \in BatchItems({TextX, TextZ}, {Meta1}), point \in DbPoints :
         CallsMade + Len(items) <= MaxAdds /\ AddBatchMayRaise("a1", items, point)

SpecFail == Init /\ [][NextFail]_vars

\* an add whose index insert failed returns the id of a committed record, and
\* leaves the table as the same add with a working index insert leaves it
FailedIndexInsertKeepsAdd ==
    (last'.op = "add_memory" /\ last'.ivfFailed) =>
        \E ok \in {AddMemoryResult(memories, Store(fmm, disk), last'.agent,
                                   last'.text, last'.meta, now)} :
            /\ ~last'.raised
            /\ last'.ids = <<ok.id>>
            /\ memories' = ok.mem
            /\ memories'[ok.id].fingerprint = Fingerprint(last'.text)

\* C22: a failure of the opportunistic incremental index insert during
\* add_memory never aborts the add: the record stays committed, add_memory
\* returns its id, and the memory table is the same as if the index insert
\* had succeeded.
C22_IndexInsertFailureSwallowed == [][FailedIndexInsertKeepsAdd]_vars

\* an add under an index has created the third record while its index insert
\* failed: the record is in the table and in no bucket
C22_Witness ==
    /\ last.op = "add_memory"
    /\ last.ivfFailed
    /\ last.ids = <<3>>
    /\ Len(memories) = 3
    /\ 3 \notin Range(BucketIds(IvfRead(CurTree(fmm, disk, "a1"))))

\* the table holds a row of `a` for the words of `text`
Committed(mem, a, text) == FindRow(mem, a, Fingerprint(text)) # 0

\* C23: if the database cannot be opened or written, add_memory and add_batch
\* propagate the error and never return normally with the memory dropped:
\* add_memory returning an id implies a committed record with that id, and
\* add_batch returning implies every item of the batch is committed.
C23_DbErrorsPropagate ==
    /\ (last.op \in {"add_memory", "add_batch"} /\ last.dbError # "none")
          => (last.raised \/ (last.op = "add_batch" /\ last.items = <<>>))
    /\ (last.op = "add_memory" /\ ~last.raised)
          => /\ Len(last.ids) = 1
             /\ last.ids[1] \in 1..Len(memories)
             /\ last.ids[1] = FindRow(memories, last.agent, Fingerprint(last.text))
    /\ (last.op = "add_batch" /\ ~last.raised)
          => \A i \in 1..Len(last.items) :
                Committed(memories, last.agent, last.items[i].text)

\* a batch of two new items has hit a failing commit over a table that
\* already holds a record: the call raised and neither item is in the table
C23_Witness ==
    /\ last.op = "add_batch"
    /\ last.dbError = "commit"
    /\ last.raised
    /\ Len(last.items) = 2
    /\ Len(memories) = 1
    /\ \A i \in 1..2 : ~Committed(memories, "a1", last.items[i].text)

(***************************************************************************)
(* ingest_manager.py: ingest_files_to_memory                               *)
(* SpecIngest: one agent ingests lists of files, some of them unreadable.   *)
(* truncate_limit stays at its default, above the length of every file.     *)
(***************************************************************************)
Files == {"f1", "f2"}
FileText(fp) == IF fp = "f1" THEN TextX ELSE TextZ
Sources == {"inject_mem", "chat"}
PathLists == UNION {[1..n -> Files] : n \in 0..2}
\* the orders in which the n read futures can complete
Orders(n) == {o \in [1..n -> 1..n] : \A i, j \in 1..n : i # j => o[i] # o[j]}

\* a slip the read phase could make: a failed read is kept as an empty result
RECURSIVE IngestReadKeepsFailed(_, _, _, _)
IngestReadKeepsFailed(paths, readable, order, i) ==
    IF i > Len(order) THEN <<>>
    ELSE LET fp == paths[order[i]]
             rest == IngestReadKeepsFailed(paths, readable, order, i + 1)
         IN  <<[fp |-> fp, preview |-> IF fp \in readable THEN FileText(fp) ELSE <<>>]>>
               \o rest
\* lines 246-274: _read per path in the pool, results appended as the futures
\* complete, a failed read (None) skipped
RECURSIVE IngestRead(_, _, _, _)
IngestRead(paths, readable, order, i) ==
    IF i > Len(order) THEN <<>>
    ELSE LET fp == paths[order[i]]
             rest == IngestRead(paths, readable, order, i + 1)
         IN  IF fp \in readable
             THEN <<[fp |-> fp, preview |-> FileText(fp)]>> \o rest
             ELSE rest

\* the metadata of an ingested entry: {"source": source, "path": fp}
IngestMeta(source, fp) ==
    <<[k |-> "source", t |-> "str", s |-> source, n |-> 0],
      [k |-> "path", t |-> "str", s |-> fp, n |-> 0]>>
\* line 280: the memory.jsonl line of one result
IngestEntry(r, source, t) ==
    [ts |-> t, role |-> "system", content |-> <<"[inject_mem]", r.fp, r.preview>>,
     meta |-> IngestMeta(source, r.fp)]
\* lines 283-288: the retrieval batch, one (text, meta, None) per result
RetrBatch(results, source) ==
    Tup([i \in 1..Len(results) |->
            [text |-> results[i].preview, meta |-> IngestMeta(source, results[i].fp)]],
        Len(results))
RECURSIVE JoinPaths(_)
JoinPaths(paths) ==
    IF paths = <<>> THEN "" ELSE paths[1] \o "," \o JoinPaths(Tail(paths))
\* lines 155 and 299: {"ts": now, "files": paths}, the list as one string
IngestPayload(paths, t) ==
    <<[k |-> "ts", t |-> "num", s |-> "", n |-> t],
      [k |-> "files", t |-> "str", s |-> JoinPaths(paths), n |-> 0]>>
\* lines 296-302: insert(["ingest", source], ...) once here and once more in
\* _persist_ingest_event
IngestFmm(S, a, paths, source, t) ==
    LET p == <<"ingest", source>>
        S1 == InsertStore(Construct(S, a, t), a, p, IngestPayload(paths, t), t)
    IN  InsertStore(S1, a, p, IngestPayload(paths, t), t)

\* ingest_files_to_memory(paths, agent_id, source=source); `readable` are
\* the files read_file can open, `order` the completion order of the reads,
\* `seed` is QJSON_RETRIEVAL_INGEST=1. events.jsonl is not part of the state.
IngestFilesToMemory(a, paths, source, readable, order, seed) ==
    /\ ~exited
    /\ \E results \in {IngestRead(paths, readable, order, 1)} :
       \E S \in {IF results = <<>> THEN Store(fmm, disk)
                 ELSE IngestFmm(Store(fmm, disk), a, paths, source, now)} :
       \E batch \in {IF seed THEN RetrBatch(results, source) ELSE <<>>} :
         /\ jsonl' = [jsonl EXCEPT ![a] =
                        @ \o Tup([i \in 1..Len(results) |->
                                     IngestEntry(results[i], source, now)],
                                 Len(results))]
         /\ memories' = BatchUpsert(memories, a, batch, now).mem
         /\ calls' = CountCalls(calls, a, batch)
         /\ fmm' = S.fmm
         /\ disk' = S.disk
         /\ last' = [NoOp EXCEPT !.op = "ingest", !.agent = a, !.paths = paths,
                                 !.source = source, !.readable = readable,
                                 !.count = Len(results),
                                 !.ids = order]
    /\ UNCHANGED <<now, exited, pc, loc, dbLock, ollamaReady>>

NextIngest ==
    \/ \E paths \in PathLists, source \in Sources, readable \in {{}, {"f1"}, Files},
          seed \in BOOLEAN :
       \E order \in Orders(Len(paths)) :
         /\ seed => source = "inject_mem"
         /\ Len(jsonl["a1"]) + Len(IngestRead(paths, readable, order, 1)) <= MaxLines
         /\ IngestFilesToMemory("a1", paths, source, readable, order, seed)

SpecIngest == Init /\ [][NextIngest]_vars

\* the value of key k in an entry's metadata
MetaValue(meta, k) ==
    LET hits == {i \in 1..Len(meta) : meta[i].k = k}
    IN  IF hits = {} THEN "" ELSE meta[CHOOSE i \in hits : TRUE].s

\* an ingestion returns the number of its paths that could be read and
\* appends that many system entries with the given source, keeping the rest
IngestCountsReadable ==
    (last'.op = "ingest") =>
        \E a \in {last'.agent} :
        \E n \in {Cardinality({i \in 1..Len(last'.paths) :
                                  last'.paths[i] \in last'.readable})} :
            /\ ~last'.raised
            /\ last'.count = n
            /\ Len(jsonl'[a]) = Len(jsonl[a]) + n
            /\ Take(jsonl'[a], Len(jsonl[a])) = jsonl[a]
            /\ \A i \in (Len(jsonl[a]) + 1)..Len(jsonl'[a]) :
                 /\ jsonl'[a][i].role = "system"
                 /\ MetaValue(jsonl'[a][i].meta, "source") = last'.source
                 /\ MetaValue(jsonl'[a][i].meta, "path") \in last'.readable

\* C24: ingest_files_to_memory returns the number of files it read
\* successfully and appends exactly that many system entries to the agent's
\* memory.jsonl, each carrying meta.source equal to the given source; an
\* unreadable file is skipped without failing the call.
C24_IngestCountsReadableFiles == [][IngestCountsReadable]_vars

\* an ingestion of two paths, one of them unreadable, has returned 1 and the
\* file holds its entry after an earlier one
C24_Witness ==
    /\ last.op = "ingest"
    /\ Len(last.paths) = 2
    /\ \E i \in 1..2 : last.paths[i] \notin last.readable
    /\ last.count = 1
    /\ Len(jsonl["a1"]) = 2
    /\ MetaValue(jsonl["a1"][2].meta, "source") = last.source

\* the payloads of a's live tree that the file of a does not hold
Unflushed(a) == PayloadCount(fmm[a].tree) - PayloadCount(LoadTree(disk[a]))

\* C27: after any sequence of insert and persist calls, the number of
\* inserted payloads not yet in the on-disk file is less than the flush batch
\* size.
C27_UnflushedBelowBatch ==
    \A a \in DOMAIN fmm :
        \E u \in {Unflushed(a)} :
            /\ u >= 0
            /\ u <= fmm[a].inserts
            /\ u < BatchSize

\* an insert has just left one payload unflushed, next to one that an
\* earlier flush wrote to the file
C27_Witness ==
    /\ last.op = "insert"
    /\ last.agent = "a1"
    /\ "a1" \in DOMAIN fmm
    /\ fmm["a1"].dirty
    /\ Unflushed("a1") = 1
    /\ PayloadCount(LoadTree(disk["a1"])) = 1

(***************************************************************************)
(* SpecPersist: insert() and persist() on one agent's store, called from   *)
(* two threads.  Neither method takes a lock (_FMM_LOCK guards only        *)
(* __new__ and the exit hook), so the threads interleave between the steps *)
(* below; write_text is open(path, "w"), which truncates, then write and   *)
(* close.                                                                  *)
(***************************************************************************)
StoreAgent == "a1"

\* the payloads in the tree or about to be appended by an insert() in flight
InsertsBegun ==
    (IF StoreAgent \in DOMAIN fmm THEN PayloadCount(fmm[StoreAgent].tree) ELSE 0)
    + Cardinality({t \in Threads : pc[t] = "mutate"})

\* PersistentFractalMemory(agent_id), then .insert(topic_path, data) is entered
PInsertBegin(t, path, payload) ==
    /\ pc[t] = "idle"
    /\ fmm' = Construct(Store(fmm, disk), StoreAgent, now).fmm
    /\ pc' = [pc EXCEPT ![t] = "mutate"]
    /\ loc' = [loc EXCEPT ![t] = [Idle EXCEPT !.op = "insert", !.agent = StoreAgent,
                                              !.text = <<path, payload>>]]
    /\ UNCHANGED <<memories, now, disk, exited, calls, last, dbLock, jsonl, ollamaReady>>

\* PersistentFractalMemory(agent_id), then .persist() is entered
PPersistBegin(t) ==
    /\ pc[t] = "idle"
    /\ fmm' = Construct(Store(fmm, disk), StoreAgent, now).fmm
    /\ pc' = [pc EXCEPT ![t] = "check"]
    /\ loc' = [loc EXCEPT ![t] = [Idle EXCEPT !.op = "persist", !.agent = StoreAgent]]
    /\ UNCHANGED <<memories, now, disk, exited, calls, last, dbLock, jsonl, ollamaReady>>

\* insert lines 60-65: the append, _dirty = True, _inserts += 1
PMutate(t) ==
    /\ pc[t] = "mutate"
    /\ fmm' = [fmm EXCEPT ![StoreAgent].tree = TreeInsert(@, loc[t].text[1], loc[t].text[2]),
                          ![StoreAgent].dirty = TRUE,
                          ![StoreAgent].inserts = @ + 1]
    /\ pc' = [pc EXCEPT ![t] = "decide"]
    /\ UNCHANGED <<memories, now, disk, exited, calls, last, loc, dbLock, jsonl, ollamaReady>>

\* insert lines 67-68: now = time.time() and the flush decision
PDecide(t) ==
    /\ pc[t] = "decide"
    /\ IF \/ fmm[StoreAgent].inserts >= BatchSize
          \/ (now - fmm[StoreAgent].since) >= FlushSec
       THEN /\ pc' = [pc EXCEPT ![t] = "check"]
            /\ loc' = [loc EXCEPT ![t].ts = now]
       ELSE /\ pc' = [pc EXCEPT ![t] = "idle"]
            /\ loc' = [loc EXCEPT ![t] = Idle]
    /\ UNCHANGED <<memories, now, fmm, disk, exited, calls, last, dbLock, jsonl, ollamaReady>>

\* where a thread goes when persist() returns: back into insert, or out
AfterPersist(t) == IF loc[t].op = "insert" THEN "reset" ELSE "idle"

\* persist lines 75-77: the _dirty test, and json.dumps of the tree as it is
PCheck(t) ==
    /\ pc[t] = "check"
    /\ IF ~fmm[StoreAgent].dirty
       THEN /\ pc' = [pc EXCEPT ![t] = AfterPersist(t)]
            /\ loc' = [loc EXCEPT ![t] = IF AfterPersist(t) = "idle" THEN Idle ELSE @]
       ELSE /\ pc' = [pc EXCEPT ![t] = "open"]
            /\ loc' = [loc EXCEPT ![t].text = JsonDumps(fmm[StoreAgent].tree)]
    /\ UNCHANGED <<memories, now, fmm, disk, exited, calls, last, dbLock, jsonl, ollamaReady>>

\* persist line 77, write_text: open(path, "w") truncates the file
POpen(t) ==
    /\ pc[t] = "open"
    /\ disk' = [disk EXCEPT ![StoreAgent] = TruncatedFile]
    /\ pc' = [pc EXCEPT ![t] = "write"]
    /\ UNCHANGED <<memories, now, fmm, exited, calls, last, loc, dbLock, jsonl, ollamaReady>>

\* persist line 77, write_text: write the text from offset 0, close
PWrite(t) ==
    /\ pc[t] = "write"
    /\ disk' = [disk EXCEPT ![StoreAgent] = WrittenFile(loc[t].text)]
    /\ pc' = [pc EXCEPT ![t] = "clear"]
    /\ UNCHANGED <<memories, now, fmm, exited, calls, last, loc, dbLock, jsonl, ollamaReady>>

\* persist line 78: _dirty = False
PClear(t) ==
    /\ pc[t] = "clear"
    /\ fmm' = [fmm EXCEPT ![StoreAgent].dirty = FALSE]
    /\ pc' = [pc EXCEPT ![t] = AfterPersist(t)]
    /\ loc' = [loc EXCEPT ![t] = IF AfterPersist(t) = "idle" THEN Idle ELSE @]
    /\ UNCHANGED <<memories, now, disk, exited, calls, last, dbLock, jsonl, ollamaReady>>

\* insert lines 70-71: _since = now, _inserts = 0
PReset(t) ==
    /\ pc[t] = "reset"
    /\ fmm' = [fmm EXCEPT ![StoreAgent].since = loc[t].ts,
                          ![StoreAgent].inserts = 0]
    /\ pc' = [pc EXCEPT ![t] = "idle"]
    /\ loc' = [loc EXCEPT ![t] = Idle]
    /\ UNCHANGED <<memories, now, disk, exited, calls, last, dbLock, jsonl, ollamaReady>>

NextPersist ==
    \/ Tick
    \/ \E t \in Threads :
        \/ \E path \in Paths, payload \in Payloads :
             InsertsBegun < MaxInserts /\ PInsertBegin(t, path, payload)
        \/ PPersistBegin(t)
        \/ PMutate(t)
        \/ PDecide(t)
        \/ PCheck(t)
        \/ POpen(t)
        \/ PWrite(t)
        \/ PClear(t)
        \/ PReset(t)

SpecPersist == Init /\ [][NextPersist]_vars

\* the threads that hold the tree file open for writing
Writing == {t \in Threads : pc[t] = "write"}

\* C9: two overlapping persist() calls on the same store, reached from
\* concurrent insert or persist callers, never interleave their writes to the
\* tree file: no thread opens the file while another has it open and has not
\* finished its write.
C9_PersistWritesSerialized == Cardinality(Writing) <= 1

\* no thread is inside insert() or persist()
Quiescent == \A t \in Threads : pc[t] = "idle"

\* C25: concurrent inserts on the same store are safe: whenever no insert or
\* persist is in progress and the store is not dirty, the on-disk file
\* contains every inserted payload, each at its path and in insertion order.
C25_CleanStoreIsOnDisk ==
    (StoreAgent \in DOMAIN fmm /\ Quiescent /\ ~fmm[StoreAgent].dirty)
        => LoadTree(disk[StoreAgent]).data = fmm[StoreAgent].tree.data

(***************************************************************************)
(* SpecConstruct: PersistentFractalMemory(agent_id) called from two        *)
(* threads.  __new__ runs under _FMM_LOCK; __init__ runs after the lock is  *)
(* released, guarded only by the instance's _initialized attribute.        *)
(***************************************************************************)
\* the instance __new__ caches: no attribute is set yet
BlankInst ==
    [tree |-> EmptyTree, dirty |-> FALSE, since |-> 0, inserts |-> 0,
     initialized |-> FALSE, assigned |-> FALSE, loaded |-> FALSE, inits |-> 0]

\* __new__ lines 29-35, under the lock: the cached instance or a new one
CNew(t, a) ==
    /\ ~exited
    /\ pc[t] = "idle"
    /\ fmm' = IF a \in DOMAIN fmm THEN fmm ELSE fmm @@ (a :> BlankInst)
    /\ pc' = [pc EXCEPT ![t] = "cguard"]
    /\ loc' = [loc EXCEPT ![t] = [Idle EXCEPT !.op = "construct", !.agent = a]]
    /\ UNCHANGED <<memories, now, disk, exited, calls, last, dbLock, jsonl, ollamaReady>>

\* __init__ lines 39-40: return if _initialized is set
CGuard(t) ==
    /\ pc[t] = "cguard"
    /\ pc' = [pc EXCEPT ![t] = IF fmm[loc[t].agent].initialized
                               THEN "cdone" ELSE "cflag"]
    /\ UNCHANGED <<memories, now, fmm, disk, exited, calls, last, loc, dbLock, jsonl, ollamaReady>>

\* __init__ line 41: _initialized = True
CFlag(t) ==
    /\ pc[t] = "cflag"
    /\ fmm' = [fmm EXCEPT ![loc[t].agent].initialized = TRUE,
                          ![loc[t].agent].inits = @ + 1]
    /\ pc' = [pc EXCEPT ![t] = "cfields"]
    /\ UNCHANGED <<memories, now, disk, exited, calls, last, loc, dbLock, jsonl, ollamaReady>>

\* __init__ lines 42-51: tree = {}, _dirty, _since, _inserts, the settings
CFields(t) ==
    /\ pc[t] = "cfields"
    /\ fmm' = [fmm EXCEPT ![loc[t].agent].tree = EmptyTree,
                          ![loc[t].agent].dirty = FALSE,
                          ![loc[t].agent].since = now,
                          ![loc[t].agent].inserts = 0,
                          ![loc[t].agent].assigned = TRUE]
    /\ pc' = [pc EXCEPT ![t] = "cload"]
    /\ UNCHANGED <<memories, now, disk, exited, calls, last, loc, dbLock, jsonl, ollamaReady>>

\* __init__ lines 52-56: the tree is read from the file if there is one
CLoad(t) ==
    /\ pc[t] = "cload"
    /\ fmm' = [fmm EXCEPT ![loc[t].agent].tree =
                              IF disk[loc[t].agent].exists
                              THEN LoadTree(disk[loc[t].agent]) ELSE @,
                          ![loc[t].agent].loaded = TRUE]
    /\ pc' = [pc EXCEPT ![t] = "cdone"]
    /\ UNCHANGED <<memories, now, disk, exited, calls, last, loc, dbLock, jsonl, ollamaReady>>

\* the constructor call returns the handle to its caller
CReturn(t) ==
    /\ pc[t] = "cdone"
    /\ pc' = [pc EXCEPT ![t] = "idle"]
    /\ loc' = [loc EXCEPT ![t] = Idle]
    /\ last' = [NoOp EXCEPT !.op = "open", !.agent = loc[t].agent]
    /\ UNCHANGED <<memories, now, fmm, disk, exited, calls, dbLock, jsonl, ollamaReady>>

\* insert(path, payload) on a handle obtained earlier, no call in progress
CInsert(a, path, payload) ==
    /\ ~exited
    /\ \A t \in Threads : pc[t] = "idle"
    /\ a \in DOMAIN fmm
    /\ fmm[a].loaded
    /\ PayloadCount(fmm[a].tree) < MaxInserts
    /\ \E S \in {InsertStore(Store(fmm, disk), a, path, payload, now)} :
         /\ fmm' = S.fmm
         /\ disk' = S.disk
    /\ last' = [NoOp EXCEPT !.op = "insert", !.agent = a]
    /\ UNCHANGED <<memories, now, exited, calls, pc, loc, dbLock, jsonl, ollamaReady>>

NextConstruct ==
    \/ \E t \in Threads :
        \/ CNew(t, StoreAgent)
        \/ CGuard(t)
        \/ CFlag(t)
        \/ CFields(t)
        \/ CLoad(t)
        \/ CReturn(t)
    \/ \E payload \in FmmPayloads : CInsert(StoreAgent, <<"kg">>, payload)
    \/ Tick
    \/ (\A t \in Threads : pc[t] = "idle") /\ AtExit
    \/ Start

SpecConstruct == Init /\ [][NextConstruct]_vars

\* C26: when several threads construct the store for the same agent id at the
\* same time, the store is initialized exactly once and no thread receives a
\* handle whose tree, dirty flag or counters are not yet initialized.
C26_ConstructedOnceAndReady ==
    \A a \in DOMAIN fmm :
        /\ fmm[a].inits <= 1
        /\ \A t \in Threads :
             (pc[t] = "cdone" /\ loc[t].agent = a) => fmm[a].loaded

(***************************************************************************)
(* SpecTimer: one process that keeps running while its callers insert,      *)
(* persist and construct when they choose to.  The module starts no thread  *)
(* and no timer: outside a call only the clock moves.  The clock and the    *)
(* constructor calls of the running process are the steps bound to happen.  *)
(***************************************************************************)
TimerOpen == \E a \in Agents : FmmOpen(a)

NextTimer ==
    \/ \E payload \in FmmPayloads :
         /\ StoredPayloads < MaxInserts
         /\ FmmInsert(StoreAgent, <<"kg">>, payload)
    \/ FmmPersist(StoreAgent)
    \/ TimerOpen
    \/ Tick

SpecTimer == Init /\ [][NextTimer]_vars /\ WF_vars(Tick) /\ WF_vars(TimerOpen)

\* the store is dirty and the flush interval has elapsed since its last flush
FlushDue ==
    /\ StoreAgent \in DOMAIN fmm
    /\ fmm[StoreAgent].dirty
    /\ now - fmm[StoreAgent].since >= FlushSec
\* the file of the store holds its tree
Flushed ==
    /\ StoreAgent \in DOMAIN fmm
    /\ ~fmm[StoreAgent].dirty

\* C28: once the flush interval has elapsed since the last flush, a dirty
\* store is flushed automatically, even if no further insert or persist call
\* arrives while the process keeps running.
C28_DueStoreIsFlushed == FlushDue ~> Flushed

(***************************************************************************)
(* SpecRebuild: _ivf_maybe_autorebuild applied to the corpus that adds and  *)
(* reindex calls have left.                                                 *)
(***************************************************************************)
\* lines 509-515: the condition under which _ivf_maybe_autorebuild builds;
\* `and` binds tighter than `or`
AutoRebuildBuilds(n, idx, useFmm) ==
    /\ useFmm
    /\ n # 0
    /\ \/ idx = NoIndex
       \/ (idx.count < n \div 2 /\ n >= ReindexThreshold)

\* _ivf_maybe_autorebuild(agent_id, con); useFmm is QJSON_RETR_USE_FMM = "1"
AutoRebuild(a, useFmm) ==
    /\ ~exited
    /\ \E n \in {Len(AgentIds(memories, a))} :
       IF ~useFmm \/ n = 0
       THEN /\ last' = [NoOp EXCEPT !.op = "autorebuild", !.agent = a,
                                    !.useFmm = useFmm, !.count = n]
            /\ UNCHANGED <<fmm, disk, ollamaReady>>
       ELSE \E S0 \in {Construct(Store(fmm, disk), a, now)} :
            \E idx \in {IvfRead(S0.fmm[a].tree)} :
            IF AutoRebuildBuilds(n, idx, useFmm)
            THEN \E seeds \in KMeansSeeds(BuildVectors(memories, a), IvfK) :
                 \E obj \in {BuildIndex(memories, a, seeds, 3, now)} :
                 \E S \in {IvfWrite(S0, a, obj, now)} :
                   /\ fmm' = S.fmm
                   /\ disk' = S.disk
                   /\ last' = [NoOp EXCEPT !.op = "autorebuild", !.agent = a,
                                           !.useFmm = useFmm, !.count = n,
                                           !.built = <<obj.dim, obj.K>>]
            ELSE /\ fmm' = S0.fmm
                 /\ disk' = S0.disk
                 /\ last' = [NoOp EXCEPT !.op = "autorebuild", !.agent = a,
                                         !.useFmm = useFmm, !.count = n]
    /\ UNCHANGED <<memories, now, exited, calls, pc, loc, dbLock, jsonl, ollamaReady>>

NextRebuild ==
    \/ \E t \in {TextX, TextZ, TextXY} :
         CallsMade < MaxAdds /\ AddMemory("a1", t, Meta1)
    \/ Reindex("a1", 2, 3)
    \/ \E useFmm \in BOOLEAN : AutoRebuild("a1", useFmm)

SpecRebuild == Init /\ [][NextRebuild]_vars

\* when the check is to build: index enabled, corpus not empty, and either no
\* index over a corpus at the threshold, or an index that counts fewer than
\* half of the records
ShouldBuild(n, idx, useFmm) ==
    /\ useFmm
    /\ n # 0
    /\ \/ (idx = NoIndex /\ n >= ReindexThreshold)
       \/ (idx # NoIndex /\ idx.count < n \div 2)

AutoRebuildAsStated ==
    (last'.op = "autorebuild") =>
        ((last'.built # <<>>)
            <=> ShouldBuild(Len(AgentIds(memories, last'.agent)),
                            IvfRead(CurTree(fmm, disk, last'.agent)), last'.useFmm))

\* C30: the auto-rebuild check builds an index exactly when no index exists
\* and the corpus size has reached the threshold, or when the indexed count
\* has fallen below half of the corpus size; with no index and a corpus below
\* the threshold it builds nothing, and it never builds when the index is
\* disabled or the corpus is empty.
C30_AutoRebuildCondition == [][AutoRebuildAsStated]_vars

(***************************************************************************)
(* SpecAuto: the add/search path of one agent that is never reindexed by    *)
(* hand.  add_memory, add_batch and search_memory are as the code has them: *)
(* none of them calls _ivf_maybe_autorebuild.  Time is bound to pass; the   *)
(* callers add and search when they choose to (a search repeated on an      *)
(* unchanged table changes nothing, so it shows as no step at all).         *)
(***************************************************************************)
AutoAdd ==
    \E t \in {TextX, TextZ, TextXY} :
        CallsMade < MaxAdds /\ AddMemory("a1", t, Meta1)
AutoAddBatch ==
    \E items \in BatchItems({TextX, TextZ}, {Meta1}) :
        CallsMade + Len(items) <= MaxAdds /\ AddBatch("a1", items)
AutoSearch ==
    \E q \in {TextX, TextZ} : SearchMemory("a1", q, TOP_K_DEFAULT, NPROBE)

NextAuto == AutoAdd \/ AutoAddBatch \/ AutoSearch \/ Tick

SpecAuto == Init /\ [][NextAuto]_vars /\ WF_vars(Tick)

\* a1 has no index and its corpus has reached the auto-rebuild threshold
IndexOverdue ==
    /\ Len(AgentIds(memories, "a1")) >= ReindexThreshold
    /\ IvfRead(CurTree(fmm, disk, "a1")) = NoIndex
IndexPresent == IvfRead(CurTree(fmm, disk, "a1")) # NoIndex

\* C29: for an agent with no index, once add calls have grown the corpus to
\* the auto-rebuild threshold, an index is built automatically by the
\* add/search path, without a reindex call: from a state where the corpus is
\* at the threshold, there is no index and a search has just returned, an
\* index is eventually present.
C29_IndexBuiltAtThreshold ==
    (IndexOverdue /\ last.op = "search") ~> IndexPresent

(***************************************************************************)
(* SpecIngest, continued: the order of the write phase                      *)
(***************************************************************************)
\* the paths of a list that can be read, in the order of the list
RECURSIVE ReadablePaths(_, _)
ReadablePaths(paths, readable) ==
    IF paths = <<>> THEN <<>>
    ELSE (IF paths[1] \in readable THEN <<paths[1]>> ELSE <<>>)
           \o ReadablePaths(Tail(paths), readable)

\* the paths of the lines a step has appended to a's memory.jsonl
AppendedPaths(a) ==
    Tup([i \in 1..(Len(jsonl'[a]) - Len(jsonl[a])) |->
            MetaValue(jsonl'[a][Len(jsonl[a]) + i].meta, "path")],
        Len(jsonl'[a]) - Len(jsonl[a]))

IngestWritesInInputOrder ==
    (last'.op = "ingest") =>
        AppendedPaths(last'.agent) = ReadablePaths(last'.paths, last'.readable)

\* C31: bulk ingestion starts its write phase only after the parallel read
\* phase has finished, and writes entries to memory.jsonl and to the
\* retrieval batch sequentially in the order of the input paths, regardless
\* of the order in which the reader workers complete.
C31_IngestWritesInInputOrder == [][IngestWritesInInputOrder]_vars

(***************************************************************************)
(* SpecScan: which rows search_memory scores.  The index is read only when *)
(* QJSON_RETR_USE_FMM is "1"; the table can be a fresh one (QJSON_MEM_DB   *)
(* names another file) while fmm.json still holds the index built over the *)
(* old one.                                                                *)
(***************************************************************************)
\* a process that starts with QJSON_MEM_DB naming a new file: _ensure_db
\* creates an empty table, the agent's fmm.json is as it was left
FreshDb ==
    /\ ~exited
    /\ memories # <<>>
    /\ \E S \in {Store(fmm, disk)} :
         /\ disk' = FlushAll(S, DOMAIN fmm).disk
         /\ fmm' = <<>>
    /\ memories' = <<>>
    /\ last' = [NoOp EXCEPT !.op = "fresh_db"]
    /\ UNCHANGED <<now, exited, calls, pc, loc, dbLock, jsonl, ollamaReady>>

\* search_memory(agent_id, query) with QJSON_RETR_USE_FMM = "1" iff useFmm,
\* QJSON_RETR_IVF_NPROBE = nprobe and an embedding of width qdim; last.ids are
\* the rows it scores
SearchScored(a, query, nprobe, useFmm, qdim) ==
    /\ ~exited
    /\ \E S \in {IF useFmm THEN Construct(Store(fmm, disk), a, now) ELSE Store(fmm, disk)} :
       \E tree \in {IF useFmm THEN S.fmm[a].tree ELSE EmptyTree} :
       \E r \in {SearchRows(memories, tree, a, query, nprobe, useFmm, qdim)} :
         /\ fmm' = S.fmm
         /\ last' = [NoOp EXCEPT !.op = "search_rows", !.agent = a, !.query = query,
                        !.top_k = TOP_K_DEFAULT, !.nprobe = nprobe, !.useFmm = useFmm,
                        !.qdim = qdim, !.ids = r.ids,
                        !.hits = IF r.ids = <<>> THEN <<>>
                                 ELSE TopK(r.ids, r.sims, TOP_K_DEFAULT)]
    /\ UNCHANGED <<memories, now, disk, exited, calls, pc, loc, dbLock, jsonl, ollamaReady>>

ScanAdd ==
    \/ \E t \in {TextXY, TextYX, TextX} :
         CallsMade < MaxAdds /\ AddMemory("a1", t, Meta1)
    \/ CallsMade < MaxAdds /\ AddMemory("a2", TextZ, Meta1)
ScanReindex == \E it \in ItersChoices : Reindex("a1", 2, it)
ScanSearch ==
    \E q \in {TextX, TextXY}, nprobe \in {1, 2}, useFmm \in BOOLEAN :
        SearchScored("a1", q, nprobe, useFmm, DIM)

NextScan == ScanAdd \/ ScanReindex \/ FreshDb \/ ScanSearch

SpecScan == Init /\ [][NextScan]_vars

\* the index a search of last.agent reads
ScanIndex == IvfRead(CurTree(fmm, disk, last.agent))

\* B is a choice of the n buckets of largest centroid dot product with q
TopBuckets(B, idx, q, n) ==
    /\ Cardinality(B) = Min2(n, Len(idx.centroids))
    /\ \A j \in B, k \in (0..(Len(idx.centroids) - 1)) \ B :
           Dot(q, idx.centroids[j + 1]) >= Dot(q, idx.centroids[k + 1])

\* the agent's rows whose ids are in the buckets B
BucketRows(mem, a, idx, B) ==
    {i \in 1..Len(mem) :
        /\ mem[i].agent = a
        /\ \E j \in B : j \in DOMAIN idx.buckets /\ i \in Range(idx.buckets[j])}

\* every row of ids is scored once, and the rows scored are exactly S
ScoresExactly(ids, S) == Range(ids) = S /\ Len(ids) = Cardinality(S)

ProbedRows ==
    {BucketRows(memories, last.agent, ScanIndex, B) :
        B \in {X \in SUBSET (0..(Len(ScanIndex.centroids) - 1)) :
                  TopBuckets(X, ScanIndex,
                             AlignDim(Embed(last.query, last.qdim), ScanIndex.dim),
                             last.nprobe)}}

C32_WitnessEmptyBucket ==
    /\ last.op = "search_rows" /\ last.useFmm /\ ScanIndex # NoIndex
    /\ {} \in ProbedRows
    /\ Len(last.ids) = Len(AgentIds(memories, last.agent))
    /\ Len(last.ids) >= 2

ScanMax == 2        \* QJSON_RETR_SCAN_MAX (default 5000)

\* the last search took an exact-scan branch (lines 565, 573 or 583)
ExactScanTaken ==
    /\ last.op = "search_rows"
    /\ \/ ~last.useFmm
       \/ ScanIndex = NoIndex
       \/ {} \in ProbedRows

\* C33: the full-corpus exact-scan fallback of search_memory never loads or
\* scores more than the scan cap (QJSON_RETR_SCAN_MAX) records.
C33_ScanWithinCap == ExactScanTaken => Len(last.ids) <= ScanMax

(***************************************************************************)
(* SpecMalformed: fmm.json of a1 holds, under dim3/K2, an index dict that  *)
(* lacks one of "centroids", "buckets", "dim" when the process starts.     *)
(***************************************************************************)
MalformedKinds == {"centroids", "buckets", "dim"}

\* the dict SmallIndex without the member miss
MalformedIndex(miss) ==
    WithMissing([SmallIndex EXCEPT
                    !.dim = IF miss = "dim" THEN 0 ELSE @,
                    !.centroids = IF miss = "centroids" THEN <<>> ELSE @,
                    !.buckets = IF miss = "buckets" THEN <<>> ELSE @],
                {miss})

MalformedTree(miss) ==
    [EmptyTree EXCEPT !.ivf = <<[dim |-> DIM,
                                 ks |-> <<[K |-> 2, obj |-> MalformedIndex(miss)]>>]>>]

InitMalformed ==
    /\ memories = <<>>
    /\ now = 0
    /\ fmm = <<>>
    /\ \E miss \in MalformedKinds :
         disk = [a \in Agents |->
                    IF a = "a1" THEN WrittenFile(JsonDumps(MalformedTree(miss)))
                    ELSE NoFile]
    /\ exited = FALSE
    /\ calls = [k \in Agents \X NormTexts |-> 0]
    /\ last = NoOp
    /\ pc = [t \in Threads |-> "idle"]
    /\ loc = [t \in Threads |-> Idle]
    /\ dbLock = NoThread
    /\ jsonl = [a \in Agents |-> <<>>]
    /\ ollamaReady = "none"

NextMalformed ==
    \/ \E t \in {TextX, TextZ, TextXY} :
         CallsMade < MaxAdds /\ AddMemory("a1", t, Meta1)
    \/ \E it \in ItersChoices : Reindex("a1", 2, it)
    \/ \E q \in {TextX, TextZ}, nprobe \in {1, 2} : SearchScored("a1", q, nprobe, TRUE, DIM)

SpecMalformed == InitMalformed /\ [][NextMalformed]_vars

\* every index dict in the agent's tree lacks a member
OnlyMalformed(tree) ==
    /\ tree.ivf # <<>>
    /\ \A i \in 1..Len(IvfEntries(tree.ivf)) : Missing(IvfEntries(tree.ivf)[i].obj) # {}

\* a search over a malformed index returns the exact-scan result
MalformedIgnored ==
    (last.op = "search_rows" /\ OnlyMalformed(CurTree(fmm, disk, last.agent))) =>
        last.hits = FullScan(memories, last.agent, Embed(last.query, DIM), TOP_K_DEFAULT)

\* the index a reindex has just stored is well-formed and is the one read
RebuiltIsRead ==
    (last.op = "reindex" /\ last.built # <<>>) =>
        LET tree == CurTree(fmm, disk, last.agent)
            built == IvfEntry(tree, last.built[1], last.built[2])
        IN  /\ Len(built) = 1
            /\ Missing(built[1].obj) = {}
            /\ IvfRead(tree) = built[1].obj

\* C34: a persisted index that lacks centroids, buckets or a dimension is
\* ignored by search_memory, which returns the exact-scan result; a later
\* reindex stores a well-formed index, and that index is the one searches
\* read afterwards.
C34_MalformedIndexIgnoredThenRebuilt == MalformedIgnored /\ RebuiltIsRead

(***************************************************************************)
(* SpecFmm, continued: what insert() changes in the tree                   *)
(***************************************************************************)
\* the value at path p of a parsed document
RECURSIVE NodeAt(_, _)
NodeAt(v, p) == IF p = <<>> THEN v ELSE NodeAt(Field(v, p[1]), Tail(p))

\* insert(path, payload) appends payload at the end of the list at path, the
\* nodes along path are dicts of the document, and every other list, the
\* index and the other agents' stores are as before
InsertAppendsOnly ==
    CallStep("insert") =>
        \E a \in {last'.agent} :
        \E path \in {last'.paths} :
        \E pre \in {Handle(a).tree} :
        \E post \in {fmm'[a].tree} :
        \E doc \in {JsonLoads(JsonDumps(post))} :
            /\ DOMAIN post.data = DOMAIN pre.data \cup {path}
            /\ post.data[path] =
                   Append(IF path \in DOMAIN pre.data THEN pre.data[path] ELSE <<>>,
                          last'.meta)
            /\ \A q \in DOMAIN pre.data \ {path} : post.data[q] = pre.data[q]
            /\ post.ivf = pre.ivf
            /\ \A n \in 0..Len(path) : NodeAt(doc, SubSeq(path, 1, n)).t = "{"
            /\ \A q \in DOMAIN pre.data :
                   \A n \in 0..Len(q) : NodeAt(doc, SubSeq(q, 1, n)).t = "{"
            /\ \A b \in DOMAIN fmm \ {a} : fmm'[b] = fmm[b]

\* C35: insert(path, payload) creates the missing nodes along the path,
\* appends the payload at the end of the leaf's data sequence, and changes
\* nothing else in the tree: the payloads at every node keep content and
\* order, and no node is removed.
C35_InsertAppendsOnly == [][InsertAppendsOnly]_vars

\* an insert has just created the node kg/nodes below kg, which held a
\* payload already, in a tree that holds an index
C35_Witness ==
    /\ last.op = "insert"
    /\ last.agent = "a1"
    /\ last.paths = <<"kg", "nodes">>
    /\ "a1" \in DOMAIN fmm
    /\ DOMAIN fmm["a1"].tree.data = {<<"kg">>, <<"kg", "nodes">>}
    /\ fmm["a1"].tree.ivf # <<>>
\* an insert has just appended a second payload to a leaf
C35_WitnessAppend ==
    /\ last.op = "insert"
    /\ last.agent = "a1"
    /\ "a1" \in DOMAIN fmm
    /\ last.paths \in DOMAIN fmm["a1"].tree.data
    /\ Len(fmm["a1"].tree.data[last.paths]) = 2
    /\ fmm["a1"].tree.data[last.paths][1] # fmm["a1"].tree.data[last.paths][2]

(***************************************************************************)
(* SpecEmbed: embed() under every QJSON_EMBED_MODE, with a remote backend  *)
(* that can fail its readiness probe (probeOk), fail the POST of the       *)
(* failAt-th text (unreachable, timeout, or a response with no embedding   *)
(* list), and a sentence_transformers import that can fail (stOk).         *)
(***************************************************************************)
RemoteDim == 2      \* the width of the vectors the backend's model returns

\* the vector a model returns for a text: a deterministic normalized vector
\* of the model's width, unrelated to the hashed one
ModelEmbed(text) ==
    NormList(Tup([d \in 1..RemoteDim |-> (Len(text) + d) * Scale], RemoteDim))

\* _embed_hash(texts)
EmbedHash(texts) == Tup([i \in 1..Len(texts) |-> Embed(texts[i], DIM)], Len(texts))

\* a slip the probe could make: a failed probe is not remembered
EmbedOllamaReprobe(ready, texts, probeOk, failAt) ==
    LET probed == ready # "true"
        r2 == IF probed THEN (IF probeOk THEN "true" ELSE "false") ELSE ready
    IN  [ready |-> r2, probed |-> probed,
         ok |-> r2 = "true" /\ failAt \notin 1..Len(texts),
         vecs |-> Tup([i \in 1..Len(texts) |-> ModelEmbed(texts[i])], Len(texts))]
\* _embed_ollama with _ollama_is_ready: the probe runs if _OLLAMA_READY is
\* None; ok is FALSE where the function raises
EmbedOllama(ready, texts, probeOk, failAt) ==
    LET probed == ready = "none"
        r2 == IF probed THEN (IF probeOk THEN "true" ELSE "false") ELSE ready
    IN  [ready |-> r2, probed |-> probed,
         ok |-> r2 = "true" /\ failAt \notin 1..Len(texts),
         vecs |-> Tup([i \in 1..Len(texts) |-> ModelEmbed(texts[i])], Len(texts))]

\* embed(texts) with QJSON_EMBED_MODE = mode
EmbedResult(mode, ready, texts, probeOk, failAt, stOk) ==
    IF mode = "hash"
    THEN [ready |-> ready, probed |-> FALSE, vecs |-> EmbedHash(texts)]
    ELSE IF mode = "transformers"
    THEN [ready |-> ready, probed |-> FALSE,
          vecs |-> IF stOk
                   THEN Tup([i \in 1..Len(texts) |-> ModelEmbed(texts[i])], Len(texts))
                   ELSE EmbedHash(texts)]
    ELSE LET o == EmbedOllama(ready, texts, probeOk, failAt)
         IN  [ready |-> o.ready, probed |-> o.probed,
              vecs |-> IF o.ok THEN o.vecs ELSE EmbedHash(texts)]

EmbedCall(mode, texts, probeOk, failAt, stOk) ==
    /\ ~exited
    /\ \E r \in {EmbedResult(mode, ollamaReady, texts, probeOk, failAt, stOk)} :
         /\ ollamaReady' = r.ready
         /\ last' = [NoOp EXCEPT !.op = "embed", !.mode = mode, !.texts = texts,
                        !.vecs = r.vecs, !.probed = r.probed, !.probeOk = probeOk,
                        !.failAt = failAt, !.stOk = stOk]
    /\ UNCHANGED <<memories, now, fmm, disk, exited, calls, pc, loc, dbLock, jsonl>>

EmbedModes == {"hash", "transformers", "ollama", ""}
EmbedTexts == {<<TextX>>, <<TextX, TextZ>>}

NextEmbed ==
    \/ \E mode \in EmbedModes, texts \in EmbedTexts, probeOk \in BOOLEAN,
          failAt \in 0..2, stOk \in BOOLEAN :
         failAt <= Len(texts) /\ EmbedCall(mode, texts, probeOk, failAt, stOk)
    \/ AtExit
    \/ Start

SpecEmbed == Init /\ [][NextEmbed]_vars

\* the call that has just returned used the remote backend and the backend
\* failed: the probe failed now or earlier, or a POST failed
BackendFailed ==
    /\ last'.mode \in {"ollama", ""}
    /\ \/ ollamaReady' = "false"
       \/ last'.failAt \in 1..Len(last'.texts)

EmbedFallsBack ==
    /\ (last'.op = "embed" /\ BackendFailed) => last'.vecs = EmbedHash(last'.texts)
    /\ (last'.op = "embed") =>
          /\ Len(last'.vecs) = Len(last'.texts)
          /\ last'.probed => ollamaReady = "none"
    /\ (ollamaReady # "none" /\ ~exited) => ollamaReady' = ollamaReady

C36_WitnessRemembered ==
    /\ last.op = "embed"
    /\ last.mode = "ollama"
    /\ ~last.probed
    /\ last.probeOk
    /\ last.failAt = 0
    /\ ollamaReady = "false"
    /\ last.vecs = EmbedHash(last.texts)

(***************************************************************************)
(* SpecWidth: records embedded at different widths (QJSON_EMBED_DIM, or    *)
(* the backend's model, differs between the processes that wrote them)     *)
(***************************************************************************)
Widths == {DIM - 1, DIM}

\* add_memory(agent_id, text, meta) where embed returns vectors of width dim
AddMemoryAt(a, text, meta, dim) ==
    /\ ~exited
    /\ \E v \in {Embed(text, dim)} :
       \E r \in {Upsert(memories, a, text, meta, now, v)} :
       \E S \in {IF r.created THEN IvfAdd(Store(fmm, disk), a, v, r.id, now)
                 ELSE Store(fmm, disk)} :
         /\ memories' = r.mem
         /\ fmm' = S.fmm
         /\ disk' = S.disk
         /\ last' = [NoOp EXCEPT !.op = "add_memory", !.agent = a, !.ids = <<r.id>>,
                                 !.meta = meta, !.created = r.created, !.qdim = dim]
    /\ calls' = [calls EXCEPT ![<<a, NormalizeText(text)>>] = @ + 1]
    /\ UNCHANGED <<now, exited, pc, loc, dbLock, jsonl, ollamaReady>>

NextWidth ==
    \/ \E t \in {TextX, TextZ}, dim \in Widths :
         CallsMade < MaxAdds /\ AddMemoryAt("a1", t, Meta1, dim)
    \/ \E it \in ItersChoices : Reindex("a1", 2, it)
    \/ \E q \in {TextX, TextZ}, nprobe \in {1, 2}, useFmm \in BOOLEAN, qdim \in Widths :
         SearchScored("a1", q, nprobe, useFmm, qdim)

SpecWidth == Init /\ [][NextWidth]_vars

\* the score of row id against the last query, both aligned to width w
ScoreAt(id, w) ==
    Dot(AlignDim(BytesToVec(memories[id].vec), w),
        AlignDim(Embed(last.query, last.qdim), w))

\* C37: records whose stored embeddings have different widths coexist for
\* one agent, and a search with a query of either width returns results:
\* every score is the dot product of the stored vector and the query after
\* both are truncated or zero-padded (and renormalized) to one common width.
C37_ScoresAtCommonWidth ==
    (last.op = "search_rows") =>
        /\ (AgentIds(memories, last.agent) # <<>>) => last.hits # <<>>
        /\ \E w \in Widths :
             \A i \in 1..Len(last.hits) :
                last.hits[i].score = ScoreAt(last.hits[i].id, w)

\* a query of the smaller width has just scored a record of each width
C37_Witness ==
    /\ last.op = "search_rows"
    /\ last.qdim = DIM - 1
    /\ \E i, j \in 1..Len(last.hits) :
         /\ Len(memories[last.hits[i].id].vec) = DIM
         /\ Len(memories[last.hits[j].id].vec) = DIM - 1
\* the same through the index, built at the width of the first record
C37_WitnessIndex ==
    /\ last.op = "search_rows" /\ last.useFmm
    /\ IvfRead(CurTree(fmm, disk, "a1")) # NoIndex
    /\ IvfRead(CurTree(fmm, disk, "a1")).dim # last.qdim
    /\ Len(last.ids) < Len(AgentIds(memories, "a1"))
    /\ \E i \in 1..Len(last.hits) :
         Len(memories[last.hits[i].id].vec) # IvfRead(CurTree(fmm, disk, "a1")).dim

(***************************************************************************)
(* SpecRace: add_memory on one thread and a reindex of the same agent on   *)
(* another, in one process.  _ivf_build reads the table once (line 436)    *)
(* and writes the index it computed from that read (line 449); neither it  *)
(* nor _ivf_add holds a lock across its read and its write.                *)
(***************************************************************************)
\* _ivf_build line 436: _fetch_agent_mem; rows are only appended, so the rows
\* fetched are the first `seen` rows of the table
RFetch(t, a) ==
    /\ pc[t] = "idle"
    /\ AgentIds(memories, a) # <<>>
    /\ pc' = [pc EXCEPT ![t] = "build"]
    /\ loc' = [loc EXCEPT ![t] = [Idle EXCEPT !.op = "reindex", !.agent = a,
                                              !.seen = Len(memories)]]
    /\ UNCHANGED <<memories, now, fmm, disk, exited, calls, last, dbLock, jsonl, ollamaReady>>

\* _ivf_build lines 439-449: k-means over the rows fetched, then _ivf_write
RWrite(t, K, iters) ==
    /\ pc[t] = "build"
    /\ \E snap \in {SubSeq(memories, 1, loc[t].seen)} :
       \E seeds \in KMeansSeeds(BuildVectors(snap, loc[t].agent), Max2(2, K)) :
       \E obj \in {BuildIndex(snap, loc[t].agent, seeds, Max2(1, iters), now)} :
       \E S \in {IvfWrite(Store(fmm, disk), loc[t].agent, obj, now)} :
         /\ fmm' = S.fmm
         /\ disk' = S.disk
         /\ last' = [NoOp EXCEPT !.op = "reindex", !.agent = loc[t].agent,
                                 !.built = <<obj.dim, obj.K>>]
    /\ pc' = [pc EXCEPT ![t] = "idle"]
    /\ loc' = [loc EXCEPT ![t] = Idle]
    /\ UNCHANGED <<memories, now, exited, calls, dbLock, jsonl, ollamaReady>>

NextRace ==
    \/ \E text \in {TextX, TextZ, TextXY} :
         /\ Begun(<<"a1", NormalizeText(text)>>) < 1
         /\ TBegin("t1", "a1", text, Meta1)
    \/ TSelect("t1")
    \/ TWrite("t1")
    \/ TCommitInsert("t1")
    \/ TIvfAdd("t1")
    \/ RFetch("t2", "a1")
    \/ \E it \in ItersChoices : RWrite("t2", 2, it)

SpecRace == Init /\ [][NextRace]_vars

\* how often id occurs in the buckets of the index search reads
Occurrences(id, obj) ==
    Cardinality({k \in 1..Len(BucketIds(obj)) : BucketIds(obj)[k] = id})

\* C38: when add_memory and a reindex for the same agent interleave, then
\* once both have returned the index holds every committed record id of the
\* agent exactly once: the new id is neither missing from the rebuilt index
\* nor present twice across its buckets.
C38_InterleavedIndexComplete ==
    (/\ \A t \in Threads : pc[t] = "idle"
     /\ IvfRead(CurTree(fmm, disk, "a1")) # NoIndex) =>
        \A i \in 1..Len(memories) :
            memories[i].agent = "a1" =>
                Occurrences(i, IvfRead(CurTree(fmm, disk, "a1"))) = 1

(***************************************************************************)
(* SpecBuckets: add_memory (repeated texts included) for two agents that   *)
(* share the table, and reindex of a1 with either K, one call at a time    *)
(***************************************************************************)
NextBuckets ==
    \/ \E t \in {TextX, TextZ, TextXY} :
         CallsMade < MaxAdds /\ AddMemory("a1", t, Meta1)
    \/ /\ CallsMade < MaxAdds
       /\ memories = <<>>
       /\ AddMemory("a2", TextZ, Meta1)
    \/ \E it \in ItersChoices : Reindex("a1", 2, it)
    \/ /\ IvfRead(CurTree(fmm, disk, "a1")).K < 3
       /\ \E it \in ItersChoices : Reindex("a1", 3, it)

SpecBuckets == Init /\ [][NextBuckets]_vars

\* no id occurs twice in the buckets of obj, and each is a row of agent a
BucketsSound(obj, a) ==
    \E ids \in {BucketIds(obj)} :
        /\ \A k \in 1..Len(ids) :
              /\ ids[k] \in 1..Len(memories)
              /\ memories[ids[k]].agent = a
        /\ \A k, m \in 1..Len(ids) : ids[k] = ids[m] => k = m

\* C39: after any sequence of add_memory calls (repeated texts included) and
\* reindex calls made one at a time, no record id appears more than once
\* across the buckets of the index search reads, and every id in a bucket is
\* the id of an existing record of that agent.
C39_BucketsSound ==
    \A a \in Agents :
        IvfRead(CurTree(fmm, disk, a)) # NoIndex =>
            BucketsSound(IvfRead(CurTree(fmm, disk, a)), a)

\* a repeated text has just been added to an agent that has an index, in a
\* table that also holds a record of the other agent
C39_Witness ==
    /\ last.op = "add_memory"
    /\ last.agent = "a1"
    /\ ~last.created
    /\ IvfRead(CurTree(fmm, disk, "a1")) # NoIndex
    /\ BucketIds(IvfRead(CurTree(fmm, disk, "a1"))) # <<>>
    /\ AgentIds(memories, "a2") # <<>>
\* an id has been appended to an index that a later reindex with a smaller K
\* did not replace
C39_WitnessStale ==
    /\ last.op = "reindex"
    /\ last.built = <<DIM, 2>>
    /\ IvfRead(CurTree(fmm, disk, "a1")).K = 3

(***************************************************************************)
(* SpecReadOnly: what search_memory and inject_for_prompt leave behind.    *)
(* They open the database, embed the query, read the index through the     *)
(* agent's store (constructing it on first use) and SELECT rows.           *)
(***************************************************************************)
\* a slip search_memory could make: a hit counts as an access of its row
RECURSIVE Touch(_, _, _)
Touch(mem, hits, t) ==
    IF hits = <<>> THEN mem
    ELSE Touch([mem EXCEPT ![hits[1].id].ts = t,
                           ![hits[1].id].freq = mem[hits[1].id].freq + 1],
               Tail(hits), t)
SearchResultTouches(mem, S, a, query, top_k, nprobe, useFmm, t) ==
    LET S2 == IF useFmm THEN Construct(S, a, t) ELSE S
        tree == IF useFmm THEN S2.fmm[a].tree ELSE EmptyTree
        hits == SearchHits(mem, tree, a, query, top_k, nprobe, useFmm, DIM)
    IN  [mem |-> Touch(mem, hits, t), store |-> S2, hits |-> hits]
\* search_memory lines 533-645 as a whole: the table and the store it leaves
\* and the hits it returns.  _ivf_read (line 537) goes through _fmm_store,
\* which constructs the agent's store on first use; every statement on the
\* connection is a SELECT
SearchResult(mem, S, a, query, top_k, nprobe, useFmm, t) ==
    LET S2 == IF useFmm THEN Construct(S, a, t) ELSE S
        tree == IF useFmm THEN S2.fmm[a].tree ELSE EmptyTree
        hits == SearchHits(mem, tree, a, query, top_k, nprobe, useFmm, DIM)
    IN  [mem |-> mem, store |-> S2, hits |-> hits]

\* min_score = 0.25 in the units of a score (Scale * Scale per 1.0)
MinScoreDefault == (Scale * Scale) \div 4
Header == "### Retrieved long-term memory"

\* f"{score:.2f}": the score in hundredths, rounded to nearest
Fmt2(s) ==
    IF s >= 0 THEN (200 * s + Scale * Scale) \div (2 * Scale * Scale)
    ELSE -((200 * (-s) + Scale * Scale) \div (2 * Scale * Scale))

\* inject_for_prompt lines 668-672: the hits of score >= min_score, and the
\* block: "" if none is left, else the header and one line per hit
KeptHits(hits, min_score) ==
    LET Keep(h) == h.score >= min_score IN SelectSeq(hits, Keep)
PromptBlock(mem, hits) ==
    IF hits = <<>> THEN <<>>
    ELSE <<[score |-> 0, text |-> <<Header>>]>> \o
         Tup([i \in 1..Len(hits) |->
                 [score |-> Fmt2(hits[i].score), text |-> mem[hits[i].id].text]],
             Len(hits))

\* search_memory(agent_id, query, top_k) with QJSON_RETR_USE_FMM = "1" iff
\* useFmm and QJSON_RETR_IVF_NPROBE = nprobe
SearchCall(a, query, top_k, nprobe, useFmm) ==
    /\ ~exited
    /\ \E r \in {SearchResult(memories, Store(fmm, disk), a, query, top_k,
                              nprobe, useFmm, now)} :
         /\ memories' = r.mem
         /\ fmm' = r.store.fmm
         /\ disk' = r.store.disk
         /\ last' = [NoOp EXCEPT !.op = "search_memory", !.agent = a,
                        !.query = query, !.top_k = top_k, !.nprobe = nprobe,
                        !.useFmm = useFmm, !.hits = r.hits]
    /\ UNCHANGED <<now, exited, calls, pc, loc, dbLock, jsonl, ollamaReady>>

\* inject_for_prompt(agent_id, query, top_k, min_score=min_score)
InjectForPrompt(a, query, top_k, min_score, nprobe, useFmm) ==
    /\ ~exited
    /\ \E r \in {SearchResult(memories, Store(fmm, disk), a, query, top_k,
                              nprobe, useFmm, now)} :
       \E kept \in {KeptHits(r.hits, min_score)} :
         /\ memories' = r.mem
         /\ fmm' = r.store.fmm
         /\ disk' = r.store.disk
         /\ last' = [NoOp EXCEPT !.op = "inject_for_prompt", !.agent = a,
                        !.query = query, !.top_k = top_k, !.nprobe = nprobe,
                        !.useFmm = useFmm, !.hits = kept,
                        !.prompt = PromptBlock(r.mem, kept)]
    /\ UNCHANGED <<now, exited, calls, pc, loc, dbLock, jsonl, ollamaReady>>

NextReadOnly ==
    \/ \E t \in {TextX, TextXY, TextZ} :
         CallsMade < MaxAdds /\ AddMemory("a1", t, Meta1)
    \/ /\ CallsMade < MaxAdds
       /\ AgentIds(memories, "a2") = <<>>
       /\ AddMemory("a2", TextX, Meta1)
    \/ \E it \in ItersChoices : Reindex("a1", 2, it)
    \/ \E q \in {TextX, TextZ}, useFmm \in BOOLEAN :
         SearchCall("a1", q, 1, 1, useFmm)
    \/ \E q \in {TextX, TextXY}, useFmm \in BOOLEAN :
         InjectForPrompt("a1", q, TOP_K_DEFAULT, MinScoreDefault, 2, useFmm)
    \/ AtExit
    \/ Start

SpecReadOnly == Init /\ [][NextReadOnly]_vars

SearchOps == {"search_memory", "inject_for_prompt"}

\* a step leaves the table, the files and every agent's index as they were
ReadOnlyStep ==
    /\ memories' = memories
    /\ disk' = disk
    /\ \A a \in DOMAIN fmm : a \in DOMAIN fmm' /\ fmm'[a] = fmm[a]
    /\ \A a \in Agents : CurTree(fmm', disk', a) = CurTree(fmm, disk, a)

\* C40: search_memory and inject_for_prompt are read-only: a call leaves the
\* memory table (records, timestamps, frequencies) and the agent's index
\* unchanged, on the candidate path and on the exact scan alike.
C40_SearchReadOnly == [][last'.op \in SearchOps => ReadOnlyStep]_vars

\* inject_for_prompt has returned hits found through the index
C40_Witness ==
    /\ last.op = "inject_for_prompt" /\ last.useFmm
    /\ IvfRead(CurTree(fmm, disk, "a1")) # NoIndex
    /\ Len(last.prompt) >= 2
    /\ Len(last.hits) < Len(AgentIds(memories, "a1"))
\* search_memory has returned a hit of the exact scan
C40_WitnessScan ==
    /\ last.op = "search_memory" /\ ~last.useFmm
    /\ IvfRead(CurTree(fmm, disk, "a1")) # NoIndex
    /\ last.hits # <<>>

====
